---------------------------- MODULE Spec2Model ----------------------------
(***************************************************************************)
(* A model of the query-processing core of KiteSQL: the scalar expression  *)
(* tree and its evaluators, the normalization rules of the heuristic       *)
(* optimizer (ConstantCalculation, SimplifyFilter, ColumnPruning) acting   *)
(* on the plan graph, and the pull-based SeqScan producer.                 *)
(***************************************************************************)
EXTENDS Integers, Naturals, Sequences, FiniteSets, TLC

VARIABLES
    graph,          \* HepGraph: node id -> operator
    version,        \* HepGraph::version
    rule,           \* the rule applied last ("none" before the first)
    at,             \* the node it was applied at
    result,         \* its outcome: "none" | "Ok" | "Err" | "Panic"
    pre,            \* the graph and version before that application
    applied,        \* the number of rule applications so far
    scan,           \* the SeqScan coroutine, its storage iterator and its collector
    evaluation,     \* an evaluator call: the operator, its operands and what it returned
    call,           \* a call into the binder or the executor builder: its input and its outcome
    overflow_checks \* whether the build panics on arithmetic overflow (debug) or wraps (release)

vars ==
    <<graph, version, rule, at, result, pre, applied, scan, evaluation, call, overflow_checks>>

(***************************************************************************)
(* Bounds of the model.                                                    *)
(***************************************************************************)
MaxConst == 2       \* literals of the predicates range over 1..MaxConst
MaxCol == 2         \* column values of the tuples range over -MaxCol..MaxCol
MaxApply == 2       \* rule applications per behaviour
MaxRows == 3        \* items the storage iterator of a scan holds

(***************************************************************************)
(* DataValue, restricted to Int32, Float64, Boolean and Null.  A Float64   *)
(* is an exact rational n/d with d > 0 in lowest terms; d = 0 stands for   *)
(* +inf (n = 1), -inf (n = -1) and NaN (n = 0).                            *)
(***************************************************************************)
I32Max == 2147483647
I32Min == (-I32Max) - 1

I32(n) == [t |-> "Int32", n |-> n, d |-> 1]
F64(n, d) == [t |-> "Float64", n |-> n, d |-> d]
VBool(b) == [t |-> "Boolean", n |-> IF b THEN 1 ELSE 0, d |-> 1]
VNull == [t |-> "Null", n |-> 0, d |-> 1]
Utf8(str) == [t |-> "Utf8", n |-> 0, d |-> 1, s |-> str]
U32(n) == [t |-> "UInt32", n |-> n, d |-> 1]
VTrue == VBool(TRUE)
VFalse == VBool(FALSE)

Abs(n) == IF n < 0 THEN -n ELSE n

RECURSIVE Gcd(_, _)
Gcd(a, b) == IF b = 0 THEN a ELSE Gcd(b, a % b)

\* v1 as f64 / v2 as f64
Ratio(n, d) ==
    IF d = 0 THEN F64(IF n > 0 THEN 1 ELSE IF n < 0 THEN -1 ELSE 0, 0)
    ELSE LET g == Gcd(Abs(n), Abs(d))
             s == IF d < 0 THEN -1 ELSE 1
         IN F64(s * (n \div g), Abs(d) \div g)

(***************************************************************************)
(* Results.  Ok carries a value; Err an error the caller can propagate     *)
(* with `?`; Panic aborts the process; Undefined is the outcome of         *)
(* hint::unreachable_unchecked(), which the build may turn into anything.  *)
(***************************************************************************)
Ok(v) == [res |-> "Ok", v |-> v]
Err(e) == [res |-> "Err", e |-> e]
Panic == [res |-> "Panic"]
Undefined == [res |-> "Undefined"]

\* DataValue::logical_type
logical_type(v) ==
    CASE v.t = "Int32" -> "Integer"
      [] v.t = "Float64" -> "Double"
      [] v.t = "Boolean" -> "Boolean"
      [] v.t = "Utf8" -> "Varchar"
      [] v.t = "UInt32" -> "UInteger"
      [] OTHER -> "SqlNull"

\* LogicalType::max_logical_type
max_logical_type(l, r) ==
    CASE l = r -> Ok(l)
      [] l = "SqlNull" -> Ok(r)
      [] r = "SqlNull" -> Ok(l)
      [] {l, r} = {"Integer", "Double"} -> Ok("Double")
      [] OTHER -> Err("Incomparable")

\* DataValue::cast
cast(v, ty) ==
    CASE v.t = "Null" -> Ok(VNull)
      [] logical_type(v) = ty -> Ok(v)
      [] v.t = "Int32" /\ ty = "Double" -> Ok(F64(v.n, 1))
      [] v.t = "Float64" /\ ty = "Integer" ->
            IF v.d = 0 THEN Err("CastFail")
            ELSE Ok(I32(IF v.n < 0 THEN -(Abs(v.n) \div v.d) ELSE v.n \div v.d))
      [] v.t = "Boolean" /\ ty = "Integer" -> Ok(I32(v.n))
      [] OTHER -> Err("CastFail")

(***************************************************************************)
(* The evaluators of types/evaluator: numeric_binary_evaluator_definition  *)
(* and numeric_unary_evaluator_definition instantiated for Int32; the      *)
(* Float64, Boolean and Null evaluators beside them.                       *)
(***************************************************************************)
checked_add(a, b) ==
    IF b >= 0
    THEN IF a > I32Max - b THEN Err("OverFlow") ELSE Ok(I32(a + b))
    ELSE IF a < I32Min - b THEN Err("OverFlow") ELSE Ok(I32(a + b))

checked_sub(a, b) ==
    IF b >= 0
    THEN IF a < I32Min + b THEN Err("OverFlow") ELSE Ok(I32(a - b))
    ELSE IF a > I32Max + b THEN Err("OverFlow") ELSE Ok(I32(a - b))

checked_mul(a, b) ==
    CASE a = 0 \/ b = 0 -> Ok(I32(0))
      [] a = 1 -> Ok(I32(b))
      [] b = 1 -> Ok(I32(a))
      [] a = I32Min \/ b = I32Min -> Err("OverFlow")
      [] a = -1 -> Ok(I32(-b))
      [] b = -1 -> Ok(I32(-a))
      [] OTHER ->
            LET x == Abs(a)
                y == Abs(b)
                neg == (a < 0) # (b < 0)
                lim == IF neg /\ I32Min % y = 0 THEN -(I32Min \div y) ELSE I32Max \div y
            IN IF x > lim THEN Err("OverFlow") ELSE Ok(I32(a * b))

\* Rust's `%` on integers: the sign of the dividend; b # 0
Rem(a, b) ==
    IF b = I32Min THEN (IF a = I32Min THEN 0 ELSE a)
    ELSE LET p == Abs(b)
             r == a % p
         IN IF a >= 0 \/ r = 0 THEN r ELSE r - p

Int32Binary(op, a, b) ==
    CASE op = "Plus" -> checked_add(a, b)
      [] op = "Minus" -> checked_sub(a, b)
      [] op = "Multiply" -> checked_mul(a, b)
      [] op = "Divide" -> Ok(Ratio(a, b))
      [] op = "Gt" -> Ok(VBool(a > b))
      [] op = "GtEq" -> Ok(VBool(a >= b))
      [] op = "Lt" -> Ok(VBool(a < b))
      [] op = "LtEq" -> Ok(VBool(a <= b))
      [] op = "Eq" -> Ok(VBool(a = b))
      [] op = "NotEq" -> Ok(VBool(a # b))
      [] op = "Modulo" ->
            IF b = 0 \/ (a = I32Min /\ b = -1) THEN Panic ELSE Ok(I32(Rem(a, b)))
      [] OTHER -> Undefined

IsNaN(x) == x.d = 0 /\ x.n = 0
IsInf(x) == x.d = 0 /\ x.n # 0
Sign(n) == IF n > 0 THEN 1 ELSE IF n < 0 THEN -1 ELSE 0
NaN == F64(0, 0)

FAdd(x, y) ==
    CASE IsNaN(x) \/ IsNaN(y) -> NaN
      [] IsInf(x) /\ IsInf(y) -> IF x.n = y.n THEN x ELSE NaN
      [] IsInf(x) -> x
      [] IsInf(y) -> y
      [] OTHER -> Ratio(x.n * y.d + y.n * x.d, x.d * y.d)

FNeg(x) == F64(-x.n, x.d)

FMul(x, y) ==
    CASE IsNaN(x) \/ IsNaN(y) -> NaN
      [] IsInf(x) \/ IsInf(y) -> F64(Sign(x.n) * Sign(y.n), 0)
      [] OTHER -> Ratio(x.n * y.n, x.d * y.d)

FDiv(x, y) ==
    CASE IsNaN(x) \/ IsNaN(y) -> NaN
      [] IsInf(x) /\ IsInf(y) -> NaN
      [] IsInf(x) -> F64(x.n * (IF y.n < 0 THEN -1 ELSE 1), 0)
      [] IsInf(y) -> F64(0, 1)
      [] y.n = 0 -> F64(Sign(x.n), 0)
      [] OTHER -> Ratio(x.n * y.d, x.d * y.n)

FTrunc(x) == F64(Sign(x.n) * (Abs(x.n) \div x.d), 1)

FRem(x, y) ==
    CASE IsNaN(x) \/ IsNaN(y) \/ IsInf(x) -> NaN
      [] IsInf(y) -> x
      [] y.n = 0 -> NaN
      [] OTHER -> FAdd(x, FNeg(FMul(y, FTrunc(FDiv(x, y)))))

\* the total order of OrderedFloat: NaN is the greatest value and equals itself
FLt(x, y) ==
    CASE IsNaN(x) -> FALSE
      [] IsNaN(y) -> TRUE
      [] IsInf(x) -> x.n < 0 /\ y # x
      [] IsInf(y) -> y.n > 0
      [] OTHER -> x.n * y.d < y.n * x.d

Float64Binary(op, x, y) ==
    CASE op = "Plus" -> Ok(FAdd(x, y))
      [] op = "Minus" -> Ok(FAdd(x, FNeg(y)))
      [] op = "Multiply" -> Ok(FMul(x, y))
      [] op = "Divide" -> Ok(FDiv(x, y))
      [] op = "Modulo" -> Ok(FRem(x, y))
      [] op = "Gt" -> Ok(VBool(FLt(y, x)))
      [] op = "GtEq" -> Ok(VBool(~FLt(x, y)))
      [] op = "Lt" -> Ok(VBool(FLt(x, y)))
      [] op = "LtEq" -> Ok(VBool(~FLt(y, x)))
      [] op = "Eq" -> Ok(VBool(x = y))
      [] op = "NotEq" -> Ok(VBool(x # y))
      [] OTHER -> Undefined

\* three-valued AND / OR; = and != on booleans
BooleanBinary(op, l, r) ==
    CASE op = "And" ->
            IF l = VFalse \/ r = VFalse THEN Ok(VFalse)
            ELSE IF l = VNull \/ r = VNull THEN Ok(VNull) ELSE Ok(VTrue)
      [] op = "Or" ->
            IF l = VTrue \/ r = VTrue THEN Ok(VTrue)
            ELSE IF l = VNull \/ r = VNull THEN Ok(VNull) ELSE Ok(VFalse)
      [] op = "Eq" -> IF l = VNull \/ r = VNull THEN Ok(VNull) ELSE Ok(VBool(l = r))
      [] op = "NotEq" -> IF l = VNull \/ r = VNull THEN Ok(VNull) ELSE Ok(VBool(l # r))
      [] OTHER -> Undefined

NumericOps == {"Plus", "Minus", "Multiply", "Divide", "Gt", "GtEq", "Lt", "LtEq",
               "Eq", "NotEq", "Modulo"}

NoEvaluator == [some |-> FALSE]
Evaluator(ty, op) == [some |-> TRUE, ty |-> ty, op |-> op]

\* EvaluatorFactory::binary_create
binary_create(ty, op) ==
    CASE ty \in {"Integer", "Double", "UInteger"} ->
            IF op \in NumericOps THEN Ok(Evaluator(ty, op))
            ELSE Err("UnsupportedBinaryOperator")
      [] ty = "Boolean" ->
            IF op \in {"And", "Or", "Eq", "NotEq"} THEN Ok(Evaluator(ty, op))
            ELSE Err("UnsupportedBinaryOperator")
      [] OTHER -> Ok(Evaluator("SqlNull", op))

\* EvaluatorFactory::unary_create
unary_create(ty, op) ==
    CASE ty \in {"Integer", "Double"} ->
            IF op \in {"Plus", "Minus"} THEN Ok(Evaluator(ty, op))
            ELSE Err("UnsupportedUnaryOperator")
      [] ty = "Boolean" ->
            IF op = "Not" THEN Ok(Evaluator(ty, op))
            ELSE Err("UnsupportedUnaryOperator")
      [] OTHER -> Err("UnsupportedUnaryOperator")

\* variant: the numeric evaluators take NULL operands for values of their type
binary_eval_values(ev, l, r) ==
    CASE ev.ty = "SqlNull" -> Ok(VNull)
      [] ev.ty = "Boolean" ->
            IF {l.t, r.t} \subseteq {"Boolean", "Null"} THEN BooleanBinary(ev.op, l, r)
            ELSE Undefined
      [] ev.ty = "Integer" ->
            IF {l.t, r.t} \subseteq {"Int32", "Null"} THEN Int32Binary(ev.op, l.n, r.n)
            ELSE Undefined
      [] OTHER ->
            IF {l.t, r.t} \subseteq {"Float64", "Null"} THEN Float64Binary(ev.op, l, r)
            ELSE Undefined

\* BinaryEvaluator::binary_eval of the evaluator `ev`
binary_eval(ev, l, r) ==
    CASE ev.ty = "SqlNull" -> Ok(VNull)
      [] ev.ty = "Boolean" ->
            IF {l.t, r.t} \subseteq {"Boolean", "Null"} THEN BooleanBinary(ev.op, l, r)
            ELSE Undefined
      [] ev.ty = "Integer" ->
            IF l.t = "Int32" /\ r.t = "Int32" THEN Int32Binary(ev.op, l.n, r.n)
            ELSE IF {l.t, r.t} \subseteq {"Int32", "Null"} THEN Ok(VNull)
            ELSE Undefined
      [] OTHER ->
            IF l.t = "Float64" /\ r.t = "Float64" THEN Float64Binary(ev.op, l, r)
            ELSE IF {l.t, r.t} \subseteq {"Float64", "Null"} THEN Ok(VNull)
            ELSE Undefined

\* UnaryEvaluator::unary_eval of the evaluator `ev`
unary_eval(ev, v) ==
    CASE ev.op = "Plus" -> Ok(v)
      [] ev.op = "Minus" /\ ev.ty = "Integer" ->
            IF v.t = "Int32"
            THEN IF v.n = I32Min
                 THEN (IF overflow_checks THEN Panic ELSE Ok(v))
                 ELSE Ok(I32(-v.n))
            ELSE IF v.t = "Null" THEN Ok(VNull) ELSE Undefined
      [] ev.op = "Minus" ->
            IF v.t = "Float64" THEN Ok(FNeg(v))
            ELSE IF v.t = "Null" THEN Ok(VNull) ELSE Undefined
      [] OTHER ->
            IF v.t = "Boolean" THEN Ok(VBool(v.n = 0))
            ELSE IF v.t = "Null" THEN Ok(VNull) ELSE Undefined

(***************************************************************************)
(* ScalarExpression.  A column is named by its summary; Empty is the hole  *)
(* the rewriters swap in.                                                  *)
(***************************************************************************)
Constant(v) == [k |-> "Constant", v |-> v]
ColumnRef(c) == [k |-> "ColumnRef", col |-> c]
Alias(e, name) == [k |-> "Alias", expr |-> e, alias |-> name]
TypeCast(e, ty) == [k |-> "TypeCast", expr |-> e, ty |-> ty]
IsNull(negated, e) == [k |-> "IsNull", negated |-> negated, expr |-> e]
Unary(op, e, ty) ==
    [k |-> "Unary", op |-> op, expr |-> e, evaluator |-> NoEvaluator, ty |-> ty]
Binary(op, l, r, ty) ==
    [k |-> "Binary", op |-> op, left_expr |-> l, right_expr |-> r,
     evaluator |-> NoEvaluator, ty |-> ty]
AggCall(distinct, kind, args, ty) ==
    [k |-> "AggCall", distinct |-> distinct, kind |-> kind, args |-> args, ty |-> ty]
In(negated, e, args) == [k |-> "In", negated |-> negated, expr |-> e, args |-> args]
Between(negated, e, l, r) ==
    [k |-> "Between", negated |-> negated, expr |-> e, left_expr |-> l, right_expr |-> r]
Reference(e, pos) == [k |-> "Reference", expr |-> e, pos |-> pos]
Empty == [k |-> "Empty"]

\* the children walk_mut_expr visits, in its order
Children(e) ==
    CASE e.k \in {"Alias", "TypeCast", "IsNull", "Unary", "Reference"} -> <<e.expr>>
      [] e.k = "Binary" -> <<e.left_expr, e.right_expr>>
      [] e.k = "AggCall" -> e.args
      [] e.k = "In" -> <<e.expr>> \o e.args
      [] e.k = "Between" -> <<e.expr, e.left_expr, e.right_expr>>
      [] OTHER -> <<>>

WithChildren(e, cs) ==
    CASE e.k \in {"Alias", "TypeCast", "IsNull", "Unary", "Reference"} ->
            [e EXCEPT !.expr = cs[1]]
      [] e.k = "Binary" -> [e EXCEPT !.left_expr = cs[1], !.right_expr = cs[2]]
      [] e.k = "AggCall" -> [e EXCEPT !.args = cs]
      [] e.k = "In" -> [e EXCEPT !.expr = cs[1], !.args = Tail(cs)]
      [] e.k = "Between" ->
            [e EXCEPT !.expr = cs[1], !.left_expr = cs[2], !.right_expr = cs[3]]
      [] OTHER -> e

RECURSIVE ContainsKind(_, _)
ContainsKind(e, kinds) ==
    \/ e.k \in kinds
    \/ \E i \in DOMAIN Children(e) : ContainsKind(Children(e)[i], kinds)

ContainsEmpty(e) == ContainsKind(e, {"Empty"})

\* the catalog: t1(c1 INT primary key, c2 INT), t2(c3 INT primary key, c4 INT)
Columns == {"c1", "c2", "c3", "c4"}
TableOf(c) == IF c \in {"c1", "c2"} THEN "t1" ELSE "t2"
ColumnsOf(t) == {c \in Columns : TableOf(c) = t}
Nullable(c) == c \in {"c2", "c4"}
datatype(c) == "Integer"

\* ScalarExpression::return_type; "PANIC" is its unreachable!() on Empty
RECURSIVE return_type(_)
return_type(e) ==
    CASE e.k = "Constant" -> logical_type(e.v)
      [] e.k = "ColumnRef" -> datatype(e.col)
      [] e.k \in {"Binary", "Unary", "TypeCast", "AggCall"} -> e.ty
      [] e.k \in {"IsNull", "In", "Between"} -> "Boolean"
      [] e.k \in {"Alias", "Reference"} -> return_type(e.expr)
      [] OTHER -> "PANIC"

Some(v) == [res |-> "Some", v |-> v]
None == [res |-> "None"]

\* Result::ok(): an Err becomes None; a panic or undefined behaviour stays
OkOf(r) == IF r.res = "Ok" THEN Some(r.v) ELSE IF r.res = "Err" THEN None ELSE r

\* Option::map / and_then over the value of the operand
MapSome(val, mapped) == IF val.res # "Some" THEN val ELSE mapped

\* unpack_val of a Unary whose operand has the value `value`
UnaryValue(value, ev) ==
    IF value.res # "Some" THEN value
    ELSE IF ev.res # "Ok" THEN None
    ELSE OkOf(unary_eval(ev.v, value.v))

\* unpack_val of a Binary: the operands cast to the type of the node, then the evaluator
BinaryValue(lc, rc, ev) ==
    IF lc.res # "Ok" \/ rc.res # "Ok" \/ ev.res # "Ok" THEN None
    ELSE OkOf(binary_eval(ev.v, lc.v, rc.v))

BinaryOperands(e, left, right) ==
    IF left.res # "Some" THEN left
    ELSE IF right.res # "Some" THEN right
    ELSE BinaryValue(IF logical_type(left.v) # e.ty THEN cast(left.v, e.ty) ELSE Ok(left.v),
                     IF logical_type(right.v) # e.ty THEN cast(right.v, e.ty) ELSE Ok(right.v),
                     IF e.evaluator.some THEN Ok(e.evaluator) ELSE binary_create(e.ty, e.op))

\* ScalarExpression::unpack_val
RECURSIVE unpack_val(_)
unpack_val(e) ==
    CASE e.k = "Constant" -> Some(e.v)
      [] e.k = "Alias" -> unpack_val(e.expr)
      [] e.k = "TypeCast" -> MapSome(unpack_val(e.expr), OkOf(cast(unpack_val(e.expr).v, e.ty)))
      [] e.k = "IsNull" -> MapSome(unpack_val(e.expr), Some(VBool(unpack_val(e.expr).v = VNull)))
      [] e.k = "Unary" ->
            UnaryValue(unpack_val(e.expr),
                       IF e.evaluator.some THEN Ok(e.evaluator) ELSE unary_create(e.ty, e.op))
      [] e.k = "Binary" ->
            BinaryOperands(e, unpack_val(e.left_expr), unpack_val(e.right_expr))
      [] OTHER -> None

\* ScalarExpression::unpack_col
RECURSIVE unpack_col(_, _)
unpack_col(e, is_deep) ==
    CASE e.k = "ColumnRef" -> Some(e.col)
      [] e.k \in {"Alias", "Unary"} -> unpack_col(e.expr, is_deep)
      [] e.k = "Binary" ->
            IF ~is_deep THEN None
            ELSE LET l == unpack_col(e.left_expr, TRUE)
                 IN IF l.res = "Some" THEN l ELSE unpack_col(e.right_expr, TRUE)
      [] OTHER -> None

(***************************************************************************)
(* ConstantCalculator.  A visit returns the outcome and the expression as  *)
(* the visit left it: the visitor mutates in place, so what it rewrote     *)
(* before an error stays rewritten.                                        *)
(***************************************************************************)
Visited(st, e, expr) == [st |-> st, e |-> e, expr |-> expr]

\* the operand cast to the type of the node when its type differs
CastTo(v, ty) == IF logical_type(v) # ty THEN cast(v, ty) ELSE Ok(v)

\* `*expr = Constant(value)`, or the failure of the evaluator with the node as it is
Folded(value, expr) ==
    IF value.res = "Ok" THEN Visited("Ok", "", Constant(value.v))
    ELSE Visited(value.res, IF value.res = "Err" THEN value.e ELSE "", expr)

\* visit_unary once the operand is visited
UnaryFolded(expr, ev) ==
    IF ev.res # "Ok" THEN Visited("Err", ev.e, expr)
    ELSE Folded(unary_eval(ev.v, expr.expr.v), expr)

UnaryVisited(expr, a) ==
    IF a.st # "Ok" \/ a.expr.k # "Constant"
    THEN Visited(a.st, a.e, [expr EXCEPT !.expr = a.expr])
    ELSE UnaryFolded([expr EXCEPT !.expr = a.expr],
                     IF expr.evaluator.some THEN Ok(expr.evaluator)
                     ELSE unary_create(expr.ty, expr.op))

\* visit_binary once both operands are visited and constant: the casts, then the fold
BinaryRightCast(expr, evaluator, rc) ==
    IF rc.res # "Ok" THEN Visited("Err", rc.e, expr)
    ELSE Folded(binary_eval(evaluator, expr.left_expr.v, rc.v),
                [expr EXCEPT !.right_expr = Constant(rc.v)])

BinaryLeftCast(expr, ty, evaluator, lc) ==
    IF lc.res # "Ok" THEN Visited("Err", lc.e, expr)
    ELSE BinaryRightCast([expr EXCEPT !.left_expr = Constant(lc.v)], evaluator,
                         CastTo(expr.right_expr.v, ty))

BinaryFolded(expr, ty, evaluator) ==
    IF evaluator.res # "Ok" THEN Visited("Err", evaluator.e, expr)
    ELSE BinaryLeftCast(expr, ty, evaluator.v, CastTo(expr.left_expr.v, ty))

BinaryRightVisited(expr, ty, r) ==
    IF r.st # "Ok" \/ expr.left_expr.k # "Constant" \/ r.expr.k # "Constant"
    THEN Visited(r.st, r.e, [expr EXCEPT !.right_expr = r.expr])
    ELSE BinaryFolded([expr EXCEPT !.right_expr = r.expr], ty, binary_create(ty, expr.op))

\* walk_mut_expr: the node with its operands as the walk left them
WalkVisited(expr, w) == Visited(w.st, w.e, WithChildren(expr, w.expr))

RECURSIVE ConstantCalculator_visit(_), ConstantCalculator_walk(_, _), BinaryLeftVisited(_, _, _),
          ChildVisited(_, _, _)
BinaryLeftVisited(expr, ty, l) ==
    IF l.st # "Ok" THEN Visited(l.st, l.e, [expr EXCEPT !.left_expr = l.expr])
    ELSE BinaryRightVisited([expr EXCEPT !.left_expr = l.expr], ty,
                            ConstantCalculator_visit(expr.right_expr))

BinaryTyped(expr, ty) ==
    IF ty.res = "Panic" THEN Visited("Panic", "", expr)
    ELSE IF ty.res # "Ok" THEN Visited("Err", ty.e, expr)
    ELSE BinaryLeftVisited(expr, ty.v, ConstantCalculator_visit(expr.left_expr))

\* the type both operands are cast to; return_type panics on an Empty operand
OperandsType(lt, rt) ==
    IF lt = "PANIC" \/ rt = "PANIC" THEN Panic ELSE max_logical_type(lt, rt)

ConstantCalculator_visit(expr) ==
    CASE expr.k = "Unary" -> UnaryVisited(expr, ConstantCalculator_visit(expr.expr))
      [] expr.k = "Binary" ->
            BinaryTyped(expr, OperandsType(return_type(expr.left_expr),
                                           return_type(expr.right_expr)))
      [] OTHER -> WalkVisited(expr, ConstantCalculator_walk(Children(expr), 1))

\* walk_mut_expr: the children in order, stopping at the first failure
ConstantCalculator_walk(cs, i) ==
    IF i > Len(cs) THEN Visited("Ok", "", cs)
    ELSE ChildVisited(cs, i, ConstantCalculator_visit(cs[i]))

ChildVisited(cs, i, c) ==
    IF c.st # "Ok" THEN Visited(c.st, c.e, [cs EXCEPT ![i] = c.expr])
    ELSE ConstantCalculator_walk([cs EXCEPT ![i] = c.expr], i + 1)

(***************************************************************************)
(* Simplify.  `rep` is Simplify::replaces, a stack whose top is its last   *)
(* element.  fix_expr, fix_unary and fix_binary work on the two operands   *)
(* and the operator of a binary node through `&mut`; here they take and    *)
(* return the frame [l, r, op, rep, st].                                   *)
(***************************************************************************)
ReplaceBinary(column_expr, val_expr, op, ty, is_column_left) ==
    [k |-> "Binary", column_expr |-> column_expr, val_expr |-> val_expr,
     op |-> op, ty |-> ty, is_column_left |-> is_column_left]

ReplaceUnary(child_expr, op, ty) ==
    [k |-> "Unary", child_expr |-> child_expr, op |-> op, ty |-> ty]

Simplified(st, expr, rep) == [st |-> st, expr |-> expr, rep |-> rep]

is_arithmetic(op) == op \in {"Plus", "Divide", "Minus", "Multiply"}

\* variant: the arithmetic operator is pushed to the other side as it is
op_flip_kept(op) == IF is_arithmetic(op) THEN op ELSE "PANIC"

op_flip(op) ==
    CASE op = "Plus" -> "Minus"
      [] op = "Minus" -> "Plus"
      [] op = "Multiply" -> "Divide"
      [] op = "Divide" -> "Multiply"
      [] OTHER -> "PANIC"

comparison_flip(op) ==
    CASE op = "Gt" -> "Lt"
      [] op = "GtEq" -> "LtEq"
      [] op = "Lt" -> "Gt"
      [] op = "LtEq" -> "GtEq"
      [] OTHER -> op

\* variant: the unary operator stays where it was found
fix_unary_kept(replace_unary, s) == s

\* Simplify::fix_unary; s.l is col_expr, s.r is val_expr
fix_unary(replace_unary, s) ==
    LET fix_op == replace_unary.op
    IN [s EXCEPT
          !.l = replace_unary.child_expr,
          !.r = Unary(fix_op, s.r, replace_unary.ty),
          !.op = CASE fix_op = "Plus" -> s.op
                   [] fix_op = "Minus" ->
                        IF is_arithmetic(s.op) THEN op_flip(s.op) ELSE comparison_flip(s.op)
                   [] OTHER -> comparison_flip(s.op)]

\* Simplify::fix_binary
fix_binary(replace_binary, s) ==
    LET fix_op == replace_binary.op
        temp_expr == s.r
        flipped == fix_op \in {"Minus", "Multiply"}
        fixed_op == IF replace_binary.is_column_left THEN op_flip(fix_op) ELSE fix_op
        fixed_left_expr ==
            IF replace_binary.is_column_left THEN temp_expr ELSE replace_binary.val_expr
        fixed_right_expr ==
            IF replace_binary.is_column_left THEN replace_binary.val_expr ELSE temp_expr
    IN IF fixed_op = "PANIC" THEN [s EXCEPT !.r = Empty, !.st = "Panic"]
       ELSE [s EXCEPT
               !.op = IF ~replace_binary.is_column_left /\ flipped
                      THEN comparison_flip(s.op) ELSE s.op,
               !.l = replace_binary.column_expr,
               !.r = Binary(fixed_op, fixed_left_expr, fixed_right_expr, replace_binary.ty)]

\* `val_expr: mem::replace(right_expr, Empty)` with is_column_left: true
PushColumnLeft(s, ty, col) ==
    [s EXCEPT !.r = Empty,
              !.rep = Append(s.rep, ReplaceBinary(ColumnRef(col), s.r, s.op, ty, TRUE))]

\* `val_expr: mem::replace(left_expr, Empty)` with is_column_left: false
PushColumnRight(s, ty, col) ==
    [s EXCEPT !.l = Empty,
              !.rep = Append(s.rep, ReplaceBinary(ColumnRef(col), s.l, s.op, ty, FALSE))]

\* `match (left_expr.unpack_col(true), right_expr.unpack_col(true))`
PushDeep(s, ty, dl, dr) ==
    CASE dl.res = "Some" /\ dr.res = "None" -> PushColumnLeft(s, ty, dl.v)
      [] dl.res = "None" /\ dr.res = "Some" -> PushColumnRight(s, ty, dr.v)
      [] OTHER -> s

\* `match (left_expr.unpack_col(false), right_expr.unpack_col(false))`
PushShallow(s, ty, lc, rc) ==
    CASE lc.res = "Some" /\ rc.res = "None" -> PushColumnLeft(s, ty, lc.v)
      [] lc.res = "None" /\ rc.res = "Some" -> PushColumnRight(s, ty, rc.v)
      [] lc.res = "None" /\ rc.res = "None" /\ s.rep # <<>> ->
            PushDeep(s, ty, unpack_col(s.l, TRUE), unpack_col(s.r, TRUE))
      [] OTHER -> s

\* the arm of Simplify::visit that pushes a ReplaceBinary for an arithmetic node
PushBinary(s, ty) ==
    IF s.st = "Ok" /\ is_arithmetic(s.op)
    THEN PushShallow(s, ty, unpack_col(s.l, FALSE), unpack_col(s.r, FALSE))
    ELSE s

\* the Binary an IN list expands to: the first argument innermost
RECURSIVE InExpansion(_, _, _, _, _)
InExpansion(arg_expr, args, i, op_1, op_2) ==
    IF i = 1 THEN Binary(op_1, arg_expr, args[1], "Boolean")
    ELSE Binary(op_2, Binary(op_1, arg_expr, args[i], "Boolean"),
                InExpansion(arg_expr, args, i - 1, op_1, op_2), "Boolean")

\* variant: BETWEEN read as excluding its bounds
BetweenExpansion_open(e) ==
    LET op == IF e.negated THEN "Or" ELSE "And"
        left_op == IF e.negated THEN "LtEq" ELSE "Gt"
        right_op == IF e.negated THEN "GtEq" ELSE "Lt"
    IN Binary(op, Binary(left_op, e.expr, e.left_expr, "Boolean"),
              Binary(right_op, e.expr, e.right_expr, "Boolean"), "Boolean")

\* the Binary a BETWEEN expands to
BetweenExpansion(e) ==
    LET op == IF e.negated THEN "Or" ELSE "And"
        left_op == IF e.negated THEN "Lt" ELSE "GtEq"
        right_op == IF e.negated THEN "Gt" ELSE "LtEq"
    IN Binary(op, Binary(left_op, e.expr, e.left_expr, "Boolean"),
              Binary(right_op, e.expr, e.right_expr, "Boolean"), "Boolean")

Frame(l, r, op, rep, st) == [l |-> l, r |-> r, op |-> op, rep |-> rep, st |-> st]

\* fix_expr(right_expr, left_expr, op): the same frame with the operands exchanged
Swap(s) == [s EXCEPT !.l = s.r, !.r = s.l]

\* the Unary arm: the node folded to its value, or a ReplaceUnary pushed
UnaryUnpacked(value, expr, rep) ==
    CASE value.res = "Some" -> Simplified("Ok", Constant(value.v), rep)
      [] value.res = "None" ->
            Simplified("Ok", expr, Append(rep, ReplaceUnary(expr.expr, expr.op, expr.ty)))
      [] OTHER -> Simplified(value.res, expr, rep)

\* the TypeCast and IsNull arms: the node replaced by `folded` when it has a value
Unpacked(val, folded, expr, rep) ==
    CASE val.res = "Some" -> Simplified("Ok", folded, rep)
      [] val.res = "None" -> Simplified("Ok", expr, rep)
      [] OTHER -> Simplified(val.res, expr, rep)

\* the Binary node with the operands and the operator the frame holds
BinaryFixed(expr, s) ==
    Simplified(s.st, [expr EXCEPT !.left_expr = s.l, !.right_expr = s.r, !.op = s.op], s.rep)

\* walk_mut_expr: the node with its operands as the walk left them
Walked(expr, w) == Simplified(w.st, WithChildren(expr, w.expr), w.rep)

RECURSIVE Simplify_visit(_, _), Simplify_walk(_, _, _), fix_expr(_), fix_loop(_),
          fix_other(_), walk_mut_expr(_, _), ChildSimplified(_, _, _), fix_visited(_, _),
          fix_replace(_, _)
Simplify_visit(expr, rep) ==
    CASE expr.k = "Unary" -> UnaryUnpacked(unpack_val(expr), expr, rep)
      [] expr.k = "Binary" ->
            BinaryFixed(expr,
                PushBinary(
                    fix_other(fix_expr(Frame(expr.left_expr, expr.right_expr, expr.op, rep, "Ok"))),
                    expr.ty))
      [] expr.k \in {"TypeCast", "IsNull"} ->
            Unpacked(unpack_val(expr),
                     IF expr.k = "TypeCast" THEN Constant(unpack_val(expr).v)
                     ELSE Constant(VBool(unpack_val(expr).v = VNull)),
                     expr, rep)
      [] expr.k = "In" ->
            IF expr.args = <<>> THEN Simplified("Ok", expr, rep)
            ELSE walk_mut_expr(InExpansion(expr.expr, expr.args, Len(expr.args),
                                           IF expr.negated THEN "NotEq" ELSE "Eq",
                                           IF expr.negated THEN "And" ELSE "Or"),
                               rep)
      [] expr.k = "Between" -> walk_mut_expr(BetweenExpansion(expr), rep)
      [] OTHER -> walk_mut_expr(expr, rep)

\* variant: fix_expr is run for one order of the operands only
fix_other_skipped(s) == s

\* `self.fix_expr(right_expr, left_expr, op)?` after the first fix_expr succeeded
fix_other(s) == IF s.st # "Ok" THEN s ELSE Swap(fix_expr(Swap(s)))

\* walk_mut_expr(self, expr): the children in order, each through Simplify::visit
walk_mut_expr(expr, rep) == Walked(expr, Simplify_walk(Children(expr), 1, rep))

Simplify_walk(cs, i, rep) ==
    IF i > Len(cs) THEN Simplified("Ok", cs, rep)
    ELSE ChildSimplified(cs, i, Simplify_visit(cs[i], rep))

ChildSimplified(cs, i, c) ==
    IF c.st # "Ok" THEN Simplified(c.st, [cs EXCEPT ![i] = c.expr], c.rep)
    ELSE Simplify_walk([cs EXCEPT ![i] = c.expr], i + 1, c.rep)

\* Simplify::fix_expr
fix_expr(s) == fix_visited(s, Simplify_visit(s.l, s.rep))

\* after `self.visit(left_expr)?`: nothing more under an arithmetic operator
fix_visited(s, v) ==
    IF v.st # "Ok" \/ is_arithmetic(s.op)
    THEN [s EXCEPT !.l = v.expr, !.rep = v.rep, !.st = v.st]
    ELSE fix_loop([s EXCEPT !.l = v.expr, !.rep = v.rep, !.st = v.st])

\* its `while let Some(replace) = self.replaces.pop()`
fix_loop(s) ==
    IF s.st # "Ok" \/ s.rep = <<>> THEN s
    ELSE fix_replace(s.rep[Len(s.rep)], [s EXCEPT !.rep = SubSeq(s.rep, 1, Len(s.rep) - 1)])

fix_replace(replace, s) ==
    IF replace.k = "Binary" THEN fix_loop(fix_binary(replace, s))
    ELSE fix_loop(fix_expr(fix_unary(replace, s)))

\* a fresh Simplify run over a predicate, as SimplifyFilter starts one
Simplify(expr) == Simplify_visit(expr, <<>>)

(***************************************************************************)
(* Columns of expressions: output_name, output_column, referenced_columns. *)
(* A ColumnSummary is the pair (name, relation) of a column.               *)
(***************************************************************************)
Display(v) ==
    CASE v.t = "Int32" -> ToString(v.n)
      [] v.t = "Float64" -> ToString(v.n) \o "/" \o ToString(v.d)
      [] v.t = "Boolean" -> IF v.n = 1 THEN "true" ELSE "false"
      [] v.t = "Utf8" -> v.s
      [] OTHER -> "null"

BinaryOperatorDisplay(op) ==
    CASE op = "Plus" -> "+" [] op = "Minus" -> "-" [] op = "Multiply" -> "*"
      [] op = "Divide" -> "/" [] op = "Modulo" -> "mod" [] op = "Gt" -> ">"
      [] op = "Lt" -> "<" [] op = "GtEq" -> ">=" [] op = "LtEq" -> "<="
      [] op = "Eq" -> "=" [] op = "NotEq" -> "!=" [] op = "And" -> "&&"
      [] OTHER -> "||"

UnaryOperatorDisplay(op) ==
    CASE op = "Plus" -> "+" [] op = "Minus" -> "-" [] OTHER -> "!"

full_name(c) == TableOf(c) \o "." \o c

RECURSIVE output_name(_), JoinNames(_, _)
output_name(e) ==
    CASE e.k = "Constant" -> Display(e.v)
      [] e.k = "ColumnRef" -> full_name(e.col)
      [] e.k = "Alias" -> e.alias
      [] e.k = "TypeCast" -> "cast (" \o output_name(e.expr) \o " as " \o e.ty \o ")"
      [] e.k = "IsNull" ->
            output_name(e.expr) \o (IF e.negated THEN " is not null" ELSE " is null")
      [] e.k = "Unary" -> UnaryOperatorDisplay(e.op) \o output_name(e.expr)
      [] e.k = "Binary" ->
            "(" \o output_name(e.left_expr) \o " " \o BinaryOperatorDisplay(e.op)
                \o " " \o output_name(e.right_expr) \o ")"
      [] e.k = "AggCall" ->
            e.kind \o "(" \o (IF e.distinct THEN "distinct " ELSE "")
                   \o JoinNames(e.args, 1) \o ")"
      [] e.k = "In" ->
            output_name(e.expr) \o (IF e.negated THEN " not in (" ELSE " in (")
                \o JoinNames(e.args, 1) \o ")"
      [] e.k = "Between" ->
            output_name(e.expr) \o (IF e.negated THEN " not between [" ELSE " between [")
                \o output_name(e.left_expr) \o ", " \o output_name(e.right_expr) \o "]"
      [] e.k = "Reference" -> output_name(e.expr)
      [] OTHER -> "PANIC"

\* args.iter().map(|expr| expr.output_name()).join(", ")
JoinNames(args, i) ==
    IF i > Len(args) THEN ""
    ELSE output_name(args[i]) \o (IF i < Len(args) THEN ", " ELSE "") \o JoinNames(args, i + 1)

ColumnCatalog(name, relation, nullable, ty) ==
    [name |-> name, relation |-> relation, nullable |-> nullable, ty |-> ty]

\* the catalog column a ColumnRef of the bound plan points at
Column(c) == ColumnCatalog(c, TableOf(c), Nullable(c), datatype(c))

summary(column) == [name |-> column.name, relation |-> column.relation]

\* ScalarExpression::output_column; on an Empty it panics
RECURSIVE output_column(_)
output_column(e) ==
    CASE e.k = "ColumnRef" -> Column(e.col)
      [] e.k = "Reference" -> output_column(e.expr)
      [] OTHER -> ColumnCatalog(output_name(e), "None", TRUE, return_type(e))

\* ScalarExpression::referenced_columns, as the set of the columns collected
RECURSIVE referenced_columns(_, _)
referenced_columns(e, only_column_ref) ==
    (IF only_column_ref THEN {} ELSE {output_column(e)})
    \cup (IF e.k = "ColumnRef" THEN {Column(e.col)} ELSE {})
    \cup UNION {referenced_columns(Children(e)[i], only_column_ref) : i \in DOMAIN Children(e)}

\* its unreachable!() arms
referenced_columns_panics(e) == ContainsKind(e, {"Reference", "Empty"})

\* variant: the columns an operator reads are not collected
trans_references_none(columns) == {}

\* the trans_references! macro
trans_references(columns) == {summary(column) : column \in columns}

\* HasCountStar over one expression: visit_agg meets COUNT(*)
RECURSIVE HasCountStar(_)
HasCountStar(e) ==
    \/ /\ e.k = "AggCall"
       /\ Len(e.args) = 1
       /\ e.args[1].k = "Constant"
       /\ e.args[1].v = Utf8("*")
    \/ /\ e.k # "AggCall"
       /\ \E i \in DOMAIN Children(e) : HasCountStar(Children(e)[i])

(***************************************************************************)
(* Operators and the HepGraph.  A graph is the sequence of its operators   *)
(* and, for each, the sequence of its children; node 1 is the root.        *)
(***************************************************************************)
Project(exprs) == [k |-> "Project", exprs |-> exprs]
Filter(predicate) == [k |-> "Filter", predicate |-> predicate, is_optimized |-> FALSE]
TableScan(table, columns) == [k |-> "TableScan", table |-> table, columns |-> columns]
Aggregate(groupby_exprs, agg_calls, is_distinct) ==
    [k |-> "Aggregate", groupby_exprs |-> groupby_exprs, agg_calls |-> agg_calls,
     is_distinct |-> is_distinct]
Join(on, filter) == [k |-> "Join", on |-> on, filter |-> filter]
Sort(sort_fields) == [k |-> "Sort", sort_fields |-> sort_fields]
\* Insert, Update, Delete, Analyze: a plan whose rows feed a table
DmlKinds == {"Insert", "Update", "Delete", "Analyze"}
Dml(kind) == [k |-> kind]
Limit == [k |-> "Limit"]
Explain == [k |-> "Explain"]

HepGraph(nodes, children) == [nodes |-> nodes, children |-> children]
Root == 1
NodeIds(g) == DOMAIN g.nodes
children_at(g, node_id) == g.children[node_id]

RECURSIVE Descendants(_, _)
Descendants(g, node_id) ==
    LET cs == {children_at(g, node_id)[i] : i \in DOMAIN children_at(g, node_id)}
    IN cs \cup UNION {Descendants(g, c) : c \in cs}

RECURSIVE Flatten(_)
Flatten(pairs) ==
    IF pairs = <<>> THEN <<>> ELSE <<pairs[1][1], pairs[1][2]>> \o Flatten(Tail(pairs))

RECURSIVE Pairs(_)
Pairs(flat) ==
    IF flat = <<>> THEN <<>> ELSE << <<flat[1], flat[2]>> >> \o Pairs(Tail(Tail(flat)))

\* the expressions of an operator, in the order ConstantCalculation meets them
Exprs(op) ==
    CASE op.k = "Aggregate" -> op.agg_calls \o op.groupby_exprs
      [] op.k = "Filter" -> <<op.predicate>>
      [] op.k = "Join" ->
            Flatten(op.on) \o (IF op.filter.res = "Some" THEN <<op.filter.v>> ELSE <<>>)
      [] op.k = "Project" -> op.exprs
      [] op.k = "Sort" -> op.sort_fields
      [] OTHER -> <<>>

WithExprs(op, es) ==
    CASE op.k = "Aggregate" ->
            [op EXCEPT !.agg_calls = SubSeq(es, 1, Len(op.agg_calls)),
                       !.groupby_exprs = SubSeq(es, Len(op.agg_calls) + 1, Len(es))]
      [] op.k = "Filter" -> [op EXCEPT !.predicate = es[1]]
      [] op.k = "Join" ->
            [op EXCEPT !.on = Pairs(SubSeq(es, 1, 2 * Len(op.on))),
                       !.filter = IF op.filter.res = "Some" THEN Some(es[Len(es)])
                                  ELSE None]
      [] op.k = "Project" -> [op EXCEPT !.exprs = es]
      [] op.k = "Sort" -> [op EXCEPT !.sort_fields = es]
      [] OTHER -> op

\* Operator::referenced_columns
Operator_referenced_columns(op, only_column_ref) ==
    IF op.k = "TableScan" THEN {Column(c) : c \in op.columns}
    ELSE UNION {referenced_columns(Exprs(op)[i], only_column_ref) : i \in DOMAIN Exprs(op)}

Operator_referenced_columns_panics(op) ==
    \E i \in DOMAIN Exprs(op) : referenced_columns_panics(Exprs(op)[i])

Applied(st, e, g) == [st |-> st, e |-> e, g |-> g]

\* ConstantCalculation::_apply
RECURSIVE ConstantCalculation_apply(_, _), ConstantCalculation_children(_, _, _)
ConstantCalculation_apply(g, node_id) ==
    LET operator == g.nodes[node_id]
        w == ConstantCalculator_walk(Exprs(operator), 1)
        g1 == [g EXCEPT !.nodes[node_id] = WithExprs(operator, w.expr)]
    IN IF w.st # "Ok" THEN Applied(w.st, w.e, g1)
       ELSE ConstantCalculation_children(g1, children_at(g1, node_id), 1)

ConstantCalculation_children(g, cs, i) ==
    IF i > Len(cs) THEN Applied("Ok", "", g)
    ELSE LET a == ConstantCalculation_apply(g, cs[i])
         IN IF a.st # "Ok" THEN a ELSE ConstantCalculation_children(a.g, cs, i + 1)

\* variant: the Filter is not marked once it is simplified
FilterSimplified_unmarked(g, node_id, m) ==
    Applied(m.st, "", [g EXCEPT !.nodes[node_id].predicate = m.expr])

\* `Simplify::default().visit(&mut filter_op.predicate)?; filter_op.is_optimized = true;`
FilterSimplified(g, node_id, m) ==
    Applied(m.st, "", [g EXCEPT !.nodes[node_id].predicate = m.expr,
                                !.nodes[node_id].is_optimized = (m.st = "Ok")])

\* `ConstantCalculator.visit(&mut filter_op.predicate)?`
FilterCalculated(g, node_id, c) ==
    IF c.st # "Ok" THEN Applied(c.st, c.e, [g EXCEPT !.nodes[node_id].predicate = c.expr])
    ELSE FilterSimplified(g, node_id, Simplify(c.expr))

\* SimplifyFilter::apply on a Filter node that is not optimized yet
SimplifyFilter_apply(g, node_id) ==
    FilterCalculated(g, node_id, ConstantCalculator_visit(g.nodes[node_id].predicate))

\* SIMPLIFY_FILTER_RULE: a Filter with no Aggregate below it
SIMPLIFY_FILTER_RULE(g, node_id) ==
    /\ g.nodes[node_id].k = "Filter"
    /\ \A d \in Descendants(g, node_id) : g.nodes[d].k # "Aggregate"

(***************************************************************************)
(* ColumnPruning.                                                          *)
(***************************************************************************)
\* the predicate of its retain
clear_exprs_retain(column_references, expr) ==
    \/ summary(output_column(expr)) \in column_references
    \/ \E column \in referenced_columns(expr, FALSE) : summary(column) \in column_references

\* ColumnPruning::clear_exprs
clear_exprs(column_references, exprs) ==
    LET Keep(expr) == clear_exprs_retain(column_references, expr)
    IN SelectSeq(exprs, Keep)

\* an expression it cannot name, or has to walk and cannot
clear_exprs_panics(column_references, exprs) ==
    \E i \in DOMAIN exprs :
        \/ ContainsKind(exprs[i], {"Empty"})
        \/ /\ summary(output_column(exprs[i])) \notin column_references
           /\ referenced_columns_panics(exprs[i])

CountStar == AggCall(FALSE, "Count", <<Constant(Utf8("*"))>>, "Integer")

\* the Aggregate arm before it recurses
PruneAggregate(column_references, all_referenced, op) ==
    IF all_referenced THEN op
    ELSE LET agg_calls == clear_exprs(column_references, op.agg_calls)
         IN [op EXCEPT !.agg_calls =
                IF agg_calls = <<>> /\ op.groupby_exprs = <<>> THEN <<CountStar>>
                ELSE agg_calls]

\* the Project arm before it recurses
PruneProject(column_references, all_referenced, op) ==
    IF all_referenced THEN op
    ELSE [op EXCEPT !.exprs = clear_exprs(column_references, op.exprs)]

\* variant: a scan keeps its columns whatever is referenced
PruneTableScan_all(column_references, all_referenced, op) == op

\* the TableScan arm
PruneTableScan(column_references, all_referenced, op) ==
    IF all_referenced THEN op
    ELSE [op EXCEPT !.columns = {c \in op.columns : summary(Column(c)) \in column_references}]

Pruned(st, g) == [st |-> st, g |-> g]

\* ColumnPruning::_apply and ColumnPruning::recollect_apply
RECURSIVE ColumnPruning_apply(_, _, _, _), recollect_apply(_, _, _, _), apply_each(_, _, _, _, _)
ColumnPruning_apply(column_references, all_referenced, node_id, g) ==
    LET operator == g.nodes[node_id]
    IN CASE operator.k = "Aggregate" ->
               LET op == PruneAggregate(column_references, all_referenced, operator)
                   g1 == [g EXCEPT !.nodes[node_id] = op]
                   new_column_references ==
                       trans_references(Operator_referenced_columns(op, FALSE))
                       \cup (IF op.is_distinct THEN column_references ELSE {})
               IN IF ~all_referenced /\ clear_exprs_panics(column_references, operator.agg_calls)
                  THEN Pruned("Panic", g)
                  ELSE IF Operator_referenced_columns_panics(op) THEN Pruned("Panic", g1)
                  ELSE recollect_apply(new_column_references, FALSE, node_id, g1)
         [] operator.k = "Project" ->
               IF \E i \in DOMAIN operator.exprs : HasCountStar(operator.exprs[i])
               THEN Pruned("Ok", g)
               ELSE LET op == PruneProject(column_references, all_referenced, operator)
                        g1 == [g EXCEPT !.nodes[node_id] = op]
                        new_column_references ==
                            trans_references(Operator_referenced_columns(op, FALSE))
                    IN IF ~all_referenced /\ clear_exprs_panics(column_references, operator.exprs)
                       THEN Pruned("Panic", g)
                       ELSE IF Operator_referenced_columns_panics(op) THEN Pruned("Panic", g1)
                       ELSE recollect_apply(new_column_references, FALSE, node_id, g1)
         [] operator.k = "TableScan" ->
               Pruned("Ok", [g EXCEPT !.nodes[node_id] =
                                PruneTableScan(column_references, all_referenced, operator)])
         [] operator.k \in {"Sort", "Limit", "Join", "Filter"} ->
               IF Operator_referenced_columns_panics(operator) THEN Pruned("Panic", g)
               ELSE apply_each(
                        column_references
                            \cup trans_references(Operator_referenced_columns(operator, FALSE)),
                        all_referenced, children_at(g, node_id), 1, g)
         [] operator.k \in DmlKinds ->
               IF children_at(g, node_id) = <<>> THEN Pruned("Panic", g)
               ELSE recollect_apply(
                        trans_references(Operator_referenced_columns(operator, FALSE)),
                        TRUE, children_at(g, node_id)[1], g)
         [] operator.k = "Explain" ->
               IF children_at(g, node_id) = <<>> THEN Pruned("Panic", g)
               ELSE ColumnPruning_apply(column_references, TRUE,
                                        children_at(g, node_id)[1], g)
         [] OTHER -> Pruned("Ok", g)

\* variant: the children of a Project or an Aggregate are not visited
recollect_apply_none(column_references, all_referenced, node_id, g) == Pruned("Ok", g)

recollect_apply(column_references, all_referenced, node_id, g) ==
    apply_each(column_references, all_referenced, children_at(g, node_id), 1, g)

\* `for child_id in graph.children_at(node_id)`: _apply on each with a clone of the set
apply_each(column_references, all_referenced, cs, i, g) ==
    IF i > Len(cs) THEN Pruned("Ok", g)
    ELSE LET a == ColumnPruning_apply(column_references, all_referenced, cs[i], g)
         IN IF a.st # "Ok" THEN a
            ELSE apply_each(column_references, all_referenced, cs, i + 1, a.g)

\* the nodes of the subtree of a node in pre-order
RECURSIVE PreOrder(_, _), PreOrderEach(_, _, _)
PreOrder(g, node_id) == <<node_id>> \o PreOrderEach(g, children_at(g, node_id), 1)

PreOrderEach(g, cs, i) ==
    IF i > Len(cs) THEN <<>> ELSE PreOrder(g, cs[i]) \o PreOrderEach(g, cs, i + 1)

\* a once-topdown batch of ColumnPruning: ColumnPruning::apply at every node in
\* pre-order, each bumping graph.version; an error ends the batch
RECURSIVE ColumnPruning_batch(_, _, _, _)
ColumnPruning_batch(g, nodes, i, bumps) ==
    IF i > Len(nodes) THEN [st |-> "Ok", g |-> g, bumps |-> bumps]
    ELSE LET a == ColumnPruning_apply({}, TRUE, nodes[i], g)
         IN IF a.st # "Ok" THEN [st |-> a.st, g |-> a.g, bumps |-> bumps]
            ELSE ColumnPruning_batch(a.g, nodes, i + 1, bumps + 1)

(***************************************************************************)
(* Evaluation of a bound expression against a tuple: BindEvaluator gives   *)
(* every unary and binary node the evaluator of its operands' type, with a *)
(* cast on an operand whose return type differs, and eval walks the tree.  *)
(* A tuple maps the columns to their values.                               *)
(***************************************************************************)
FirstFailure(rs) ==
    LET bad == {i \in DOMAIN rs : rs[i].res # "Ok"}
    IN rs[CHOOSE i \in bad : \A j \in bad : i <= j]

AllOk(rs) == \A i \in DOMAIN rs : rs[i].res = "Ok"

RECURSIVE Eval(_, _)
Eval(e, tuple) ==
    LET cs == [i \in DOMAIN Children(e) |-> Eval(Children(e)[i], tuple)]
    IN CASE e.k = "Constant" -> Ok(e.v)
         [] e.k = "ColumnRef" -> Ok(tuple[e.col])
         [] e.k = "Empty" -> Panic
         [] ~AllOk(cs) -> FirstFailure(cs)
         [] e.k \in {"Alias", "Reference"} -> cs[1]
         [] e.k = "TypeCast" -> cast(cs[1].v, e.ty)
         [] e.k = "IsNull" -> Ok(VBool(e.negated # (cs[1].v = VNull)))
         [] e.k = "Unary" ->
               LET evaluator == unary_create(return_type(e.expr), e.op)
               IN IF evaluator.res # "Ok" THEN evaluator
                  ELSE unary_eval(evaluator.v, cs[1].v)
         [] e.k = "Binary" ->
               LET lt == return_type(e.left_expr)
                   rt == return_type(e.right_expr)
                   ty == max_logical_type(lt, rt)
                   l == IF lt # ty.v THEN cast(cs[1].v, ty.v) ELSE cs[1]
                   r == IF rt # ty.v THEN cast(cs[2].v, ty.v) ELSE cs[2]
                   evaluator == binary_create(ty.v, e.op)
               IN IF ty.res # "Ok" THEN ty
                  ELSE IF evaluator.res # "Ok" THEN evaluator
                  ELSE IF l.res # "Ok" THEN l
                  ELSE IF r.res # "Ok" THEN r
                  ELSE binary_eval(evaluator.v, l.v, r.v)
         [] e.k = "In" ->
               LET value == cs[1].v
                   args == [i \in 1..Len(e.args) |-> cs[i + 1].v]
               IN IF value = VNull \/ \E i \in DOMAIN args : args[i] = VNull THEN Ok(VNull)
                  ELSE Ok(VBool(e.negated # (\E i \in DOMAIN args : args[i] = value)))
         [] e.k = "Between" ->
               LET value == cs[1].v
                   left == cs[2].v
                   right == cs[3].v
               IN IF VNull \in {value, left, right} THEN Ok(VNull)
                  ELSE Ok(VBool(e.negated # (left.n <= value.n /\ value.n <= right.n)))
         [] OTHER -> Undefined

TupleValues(c) ==
    {I32(n) : n \in (-MaxCol)..MaxCol} \cup (IF Nullable(c) THEN {VNull} ELSE {})

\* the tuples of t1
Tuples == {tuple \in [{"c1", "c2"} -> TupleValues("c2")] : tuple["c1"] \in TupleValues("c1")}

(***************************************************************************)
(* The bound plans the optimizer starts from.  The binder types an         *)
(* arithmetic node by its operands (Double for a division), a comparison   *)
(* as Boolean.                                                             *)
(***************************************************************************)
Lits == 1..MaxConst
K(n) == Constant(I32(n))
c1 == ColumnRef("c1")
c2 == ColumnRef("c2")
c3 == ColumnRef("c3")
c4 == ColumnRef("c4")

ArithOps == {"Plus", "Minus", "Multiply", "Divide"}
CmpOps == {"Gt", "GtEq", "Lt", "LtEq", "Eq", "NotEq"}

Arith(op, l, r) == Binary(op, l, r, IF op = "Divide" THEN "Double" ELSE "Integer")
Cmp(op, l, r) == Binary(op, l, r, "Boolean")
Neg(e) == Unary("Minus", e, "Integer")
Pos(e) == Unary("Plus", e, "Integer")

\* c op k and k op c
ColumnLeft == {Arith(op, c1, K(k)) : op \in ArithOps, k \in Lits}
ColumnRight == {Arith(op, K(k), c1) : op \in ArithOps, k \in Lits}

\* (u1 .. un c), n in 1..2
UnaryChains ==
    {Neg(c1), Pos(c1)} \cup {Neg(Neg(c1)), Neg(Pos(c1)), Pos(Neg(c1)), Pos(Pos(c1))}

\* a unary minus over an arithmetic node
NegArith == {Neg(t) : t \in ColumnLeft \cup ColumnRight}

\* ((c op a) op b), (b op (c op a)), ((a op c) op b), (b op (a op c)): outermost constant MaxConst
Nested ==
    {Arith(op, t, K(MaxConst)) : op \in ArithOps, t \in ColumnLeft \cup ColumnRight}
    \cup {Arith(op, K(MaxConst), t) : op \in ArithOps, t \in ColumnLeft \cup ColumnRight}

\* L cmp k and its mirror k cmp~ L
SingleColumn ==
    LET terms == ColumnLeft \cup ColumnRight \cup UnaryChains \cup NegArith
    IN {Cmp(op, t, K(k)) : op \in CmpOps, t \in terms, k \in Lits}
       \cup {Cmp(comparison_flip(op), K(k), t) : op \in CmpOps, t \in terms, k \in Lits}

NestedColumn ==
    {Cmp(op, t, K(MaxConst)) : op \in {"Gt", "Eq"}, t \in Nested}
    \cup {Cmp(op, K(MaxConst), t) : op \in {"Lt"}, t \in Nested}

RECURSIVE SeqsUpTo(_, _)
SeqsUpTo(S, n) ==
    IF n = 0 THEN {<<>>}
    ELSE SeqsUpTo(S, n - 1)
         \cup {Append(q, x) : q \in {r \in SeqsUpTo(S, n - 1) : Len(r) = n - 1}, x \in S}

InLists ==
    {In(negated, e, args) :
        negated \in BOOLEAN, e \in {c1, Neg(c1), Arith("Plus", c1, K(1))},
        args \in SeqsUpTo({K(k) : k \in Lits}, MaxConst + 1)}

Betweens ==
    {Between(negated, e, K(l), K(r)) :
        negated \in BOOLEAN, e \in {c1, Arith("Plus", c1, K(1))}, l \in Lits, r \in Lits}

IsNulls ==
    {IsNull(negated, e) : negated \in BOOLEAN, e \in {c1, c2, Constant(VNull), K(1)}}

\* both operands hold a column; a modulo above a pushdown; AND / OR of comparisons
TwoColumns ==
    {Cmp(op, l, r) : op \in {"Gt", "Eq"},
                     l \in {c1, Neg(c1), Arith("Plus", c1, K(1)), Neg(Arith("Plus", c1, K(1))),
                            Arith("Minus", K(1), c1), Arith("Multiply", c1, K(MaxConst)),
                            Arith("Plus", Arith("Plus", c1, K(1)), c2)},
                     r \in {c2, Arith("Plus", c2, K(1)), K(MaxConst)}}

Modulos ==
    {Cmp("Eq", Binary("Modulo", t, K(MaxConst), "Integer"), K(1)) :
        t \in {c1, Arith("Plus", c1, K(1)), Arith("Minus", K(1), c1)}}

\* an arithmetic node under an alias
Aliased ==
    {Cmp("Gt", Alias(t, "a"), K(MaxConst)) :
        t \in {Arith("Plus", c1, K(1)), Arith("Minus", K(1), c1)}}

Connectives ==
    {Cmp(op, l, r) : op \in {"And", "Or"},
                     l \in {Cmp("Gt", Arith("Plus", c1, K(1)), K(MaxConst)),
                            Cmp("Eq", c1, K(1)),
                            Unary("Not", Cmp("Gt", c1, K(1)), "Boolean")},
                     r \in {Cmp("Lt", c2, K(MaxConst)),
                            Cmp("Lt", Arith("Minus", K(1), c2), K(1)),
                            In(FALSE, c1, <<K(1), K(MaxConst)>>)}}

\* constants at the edge of the 32-bit range
Edges ==
    {Cmp("Gt", Arith("Minus", c1, K(1)), K(I32Max)),
     Cmp("Gt", c1, Arith("Plus", K(I32Max), K(1))),
     Cmp("Gt", c1, Neg(K(I32Min))),
     Cmp("Gt", Neg(c1), K(I32Min)),
     Cmp("Eq", c1, Binary("Modulo", K(1), Arith("Minus", K(1), K(1)), "Integer")),
     Cmp("Eq", c1, Arith("Divide", K(MaxConst), K(1))),
     Cmp("Gt", c1, Binary("And", K(1), K(MaxConst), "Integer"))}

Predicates ==
    SingleColumn \cup NestedColumn \cup InLists \cup Betweens \cup IsNulls
    \cup TwoColumns \cup Modulos \cup Aliased \cup Connectives \cup Edges

\* a chain of operators, each the only child of the one before
Chain(ops) == HepGraph(ops, [i \in DOMAIN ops |-> IF i < Len(ops) THEN <<i + 1>> ELSE <<>>])

ScanT1 == TableScan("t1", {"c1", "c2"})
ScanT2 == TableScan("t2", {"c3", "c4"})

\* select c1, c2 from t1 where P
FilterPlans == {Chain(<<Project(<<c1, c2>>), Filter(p), ScanT1>>) : p \in Predicates}

\* projections whose expressions fold, or fail to fold, one after another
FoldingLists ==
    {<<Arith("Plus", K(1), K(1)), e, c1>> :
        e \in {Arith("Plus", K(I32Max), K(1)), Arith("Multiply", K(MaxConst), K(1)),
               Binary("And", K(1), K(1), "Integer"), Neg(K(1)), Arith("Plus", c2, K(1))}}

FoldingPlans ==
    {Chain(<<Project(es), Filter(p), ScanT1>>) :
        es \in FoldingLists,
        p \in {Cmp("Gt", c1, Arith("Plus", K(1), K(1))),
               Cmp("Gt", c1, Arith("Plus", K(I32Max), K(1)))}}
    \cup {Chain(<<Project(<<c1>>), Sort(es), Filter(Cmp("Gt", c1, K(1))), ScanT1>>) :
            es \in FoldingLists}

ProjectLists ==
    {<<c1>>, <<c2>>, <<c1, c2>>, <<Arith("Plus", c1, K(1))>>, <<Alias(c2, "x"), K(1)>>, <<K(1)>>}

Sum(e) == AggCall(FALSE, "Sum", <<e>>, "Integer")
Count(e) == AggCall(FALSE, "Count", <<e>>, "Integer")

\* the group-by and the aggregate calls of an Aggregate: not both empty
AggregateLists ==
    {<<gs, as>> : gs \in {<<>>, <<c2>>},
                  as \in {<<Sum(c1)>>, <<Sum(c1), Count(c2)>>, <<CountStar>>, <<>>}}
    \ {<< <<>>, <<>> >>}

\* a projection reads what its child puts out
PruningPlans ==
    {Chain(<<Project(es), Filter(p), ScanT1>>) :
        es \in ProjectLists, p \in {Cmp("Gt", c1, K(1)), Cmp("Eq", c2, K(1))}}
    \cup {Chain(<<Project(es), Sort(<<k>>), Limit, ScanT1>>) :
            es \in ProjectLists, k \in {c1, c2}}
    \cup {Chain(<<Project(es), Project(<<c1, c2, Arith("Plus", c1, c2)>>), ScanT1>>) :
            es \in ProjectLists}
    \cup {Chain(<<Explain, Project(es), ScanT1>>) : es \in ProjectLists}
    \cup {Chain(<<Filter(p), Project(es), ScanT1>>) :
            es \in {<<c1>>, <<c1, c2>>}, p \in {Cmp("Gt", c1, K(1))}}
    \cup UNION {{Chain(<<Project(es), Aggregate(a[1], a[2], d), ScanT1>>) :
                    es \in {a[1] \o a[2], <<K(1)>>}
                          \cup {<<(a[1] \o a[2])[i]>> : i \in DOMAIN (a[1] \o a[2])},
                    d \in BOOLEAN} :
                 a \in AggregateLists}
    \cup {Chain(<<Aggregate(a[1], a[2], d), ScanT1>>) : a \in AggregateLists, d \in BOOLEAN}
    \cup {Chain(<<Filter(Cmp("Gt", c1, K(1))), ScanT1>>), Chain(<<Sort(<<c1>>), Limit, ScanT1>>)}
    \cup {Chain(<<Dml(kind), Project(es), ScanT1>>) : kind \in DmlKinds, es \in {<<c1>>, <<c1, c2>>}}
    \cup {Chain(<<Dml(kind), Filter(Cmp("Gt", c1, K(1))), Project(<<c1>>), ScanT1>>) :
            kind \in DmlKinds}
    \cup {HepGraph(<<Project(es), Join(on, f), ScanT1, ScanT2>>, <<<<2>>, <<3, 4>>, <<>>, <<>>>>) :
            es \in {<<c1, c3>>, <<c1>>, <<c4>>, <<c1, c2, c3, c4>>},
            on \in {<< <<c1, c3>> >>, <<>>},
            f \in {None, Some(Cmp("Gt", c2, K(1))), Some(Cmp("Gt", c4, Arith("Plus", K(1), K(1))))}}

Plans == FilterPlans \cup FoldingPlans \cup PruningPlans

(***************************************************************************)
(* The optimizer: a rule is applied at a node of the graph.  An error or a *)
(* panic ends the optimization.                                            *)
(***************************************************************************)
NoScan == [pc |-> "None"]
NoEvaluation == [kind |-> "None"]
NoCall == [to |-> "None"]

\* what the caller of a rule sees; undefined behaviour may surface as anything
Outcomes(st) == IF st = "Undefined" THEN {"Ok", "Err", "Panic"} ELSE {st}

Init ==
    /\ graph \in Plans
    /\ overflow_checks \in BOOLEAN
    /\ (~overflow_checks => graph \in {Chain(<<Project(<<c1, c2>>), Filter(p), ScanT1>>) :
                                          p \in Edges \cup IsNulls})
    /\ version = 0
    /\ rule = "none"
    /\ at = 0
    /\ result = "none"
    /\ pre = [graph |-> graph, version |-> 0]
    /\ applied = 0
    /\ scan = NoScan
    /\ evaluation = NoEvaluation
    /\ call = NoCall

CanApply == result \in {"none", "Ok"} /\ applied < MaxApply

Record(name, node_id, a) ==
    /\ rule' = name
    /\ at' = node_id
    /\ pre' = [graph |-> graph, version |-> version]
    /\ applied' = applied + 1
    /\ graph' = a.g
    /\ result' \in Outcomes(a.st)
    /\ version' = IF result' = "Ok" THEN version + 1 ELSE version
    /\ UNCHANGED <<scan, evaluation, call, overflow_checks>>

\* SimplifyFilter::apply: at a node that is no Filter or at a Filter already optimized
\* it returns Ok(()) with nothing written; else at a Filter its pattern matches
ApplySimplifyFilter(node_id) ==
    /\ CanApply
    /\ IF graph.nodes[node_id].k # "Filter" \/ graph.nodes[node_id].is_optimized
       THEN /\ rule' = "SimplifyFilter"
            /\ at' = node_id
            /\ pre' = [graph |-> graph, version |-> version]
            /\ applied' = applied + 1
            /\ result' = "Ok"
            /\ UNCHANGED <<graph, version, scan, evaluation, call, overflow_checks>>
       ELSE /\ SIMPLIFY_FILTER_RULE(graph, node_id)
            /\ Record("SimplifyFilter", node_id, SimplifyFilter_apply(graph, node_id))

\* ConstantCalculation::apply at any node
ApplyConstantCalculation(node_id) ==
    /\ CanApply
    /\ Record("ConstantCalculation", node_id, ConstantCalculation_apply(graph, node_id))

\* ColumnPruning::apply at the root of the plan
ApplyColumnPruning ==
    /\ CanApply
    /\ Record("ColumnPruning", Root, ColumnPruning_apply({}, TRUE, Root, graph))

\* the column-pruning batch over the whole plan
ApplyColumnPruningBatch ==
    /\ CanApply
    /\ LET b == ColumnPruning_batch(graph, PreOrder(graph, Root), 1, 0)
       IN /\ rule' = "ColumnPruningBatch"
          /\ at' = Root
          /\ pre' = [graph |-> graph, version |-> version]
          /\ applied' = applied + 1
          /\ graph' = b.g
          /\ result' \in Outcomes(b.st)
          /\ version' = version + b.bumps
          /\ UNCHANGED <<scan, evaluation, call, overflow_checks>>

Next ==
    \/ \E node_id \in NodeIds(graph) : ApplySimplifyFilter(node_id)
    \/ \E node_id \in NodeIds(graph) : ApplyConstantCalculation(node_id)
    \/ ApplyColumnPruning
    \/ ApplyColumnPruningBatch

Spec == Init /\ [][Next]_vars

(***************************************************************************)
(* SeqScan: the coroutine of SeqScan::execute over the iterator the        *)
(* transaction opens, driven by try_collect.  `items` is what next_tuple   *)
(* returns call after call, then None: Ok(tuple) or Err(error).            *)
(***************************************************************************)
Yielded(r) == [k |-> "Yielded", r |-> r]
Complete == [k |-> "Complete"]

StorageItems == {Ok(n) : n \in Lits} \cup {Err("Storage")}

\* `yield r`: the coroutine suspends at this yield
Yield(s, r, pc) == [s EXCEPT !.pc = pc, !.last = Yielded(r), !.yielded = Append(s.yielded, r)]

\* the coroutine runs off its end
Return(s) == [s EXCEPT !.pc = "Returned", !.last = Complete]

\* throw!(code): on an Ok the code goes on with `continue`; on an Err `yield Err(err); return;`
throw(s, r, continue) == IF r.res = "Ok" THEN continue ELSE Yield(s, r, "Thrown")

\* `while let Some(tuple) = throw!(iter.next_tuple()) { yield Ok(tuple); }`
next_tuple(s) ==
    IF s.pos > Len(s.items) THEN Return(s)
    ELSE LET r == s.items[s.pos]
             s1 == [s EXCEPT !.pos = s.pos + 1]
         IN throw(s1, r, Yield(s1, r, "Suspended"))

\* transaction.read(..): the iterator, or the error of opening it
read(s) == IF s.open_fails THEN Err("Storage") ELSE Ok("iter")

\* variant: the scan loop goes on after the error it yielded
SeqScan_resume_on(s) ==
    CASE s.pc = "Unresumed" -> throw(s, read(s), next_tuple(s))
      [] s.pc = "Suspended" -> next_tuple(s)
      [] s.pc = "Thrown" -> next_tuple(s)
      [] OTHER -> [s EXCEPT !.pc = "Panicked"]

\* one resume of the coroutine, up to its next yield or its return
SeqScan_resume(s) ==
    CASE s.pc = "Unresumed" -> throw(s, read(s), next_tuple(s))
      [] s.pc = "Suspended" -> next_tuple(s)
      [] s.pc = "Thrown" -> Return(s)
      [] OTHER -> [s EXCEPT !.pc = "Panicked"]

InitScan ==
    /\ graph = Chain(<<ScanT1>>)
    /\ overflow_checks = TRUE
    /\ evaluation = NoEvaluation
    /\ call = NoCall
    /\ version = 0
    /\ rule = "none"
    /\ at = 0
    /\ result = "none"
    /\ pre = [graph |-> graph, version |-> 0]
    /\ applied = 0
    /\ \E open_fails \in BOOLEAN, items \in SeqsUpTo(StorageItems, MaxRows) :
          scan = [pc |-> "Unresumed", open_fails |-> open_fails, items |-> items, pos |-> 1,
                  last |-> [k |-> "None"], yielded |-> <<>>, resumes |-> 0,
                  collector |-> "resume", output |-> <<>>, ret |-> [res |-> "None"]]

\* try_collect: `Pin::new(&mut executor).resume(())`
Resume ==
    /\ scan.collector = "resume"
    /\ scan' = [SeqScan_resume(scan) EXCEPT !.collector = "handle", !.resumes = scan.resumes + 1]
    /\ UNCHANGED <<graph, version, rule, at, result, pre, applied, evaluation, call, overflow_checks>>

\* try_collect: `output.push(tuple?)`, or `Ok(output)` when the stream is complete
Collect ==
    /\ scan.collector = "handle"
    /\ scan' =
         CASE scan.last.k = "Complete" ->
                 [scan EXCEPT !.collector = "done", !.ret = Ok(scan.output)]
           [] scan.last.r.res = "Ok" ->
                 [scan EXCEPT !.collector = "resume",
                              !.output = Append(scan.output, scan.last.r.v)]
           [] OTHER -> [scan EXCEPT !.collector = "done", !.ret = scan.last.r]
    /\ UNCHANGED <<graph, version, rule, at, result, pre, applied, evaluation, call, overflow_checks>>

NextScan == Resume \/ Collect

SpecScan == InitScan /\ [][NextScan]_vars

(***************************************************************************)
(* The numeric evaluators on their own: an evaluator the factory built for *)
(* Integer or Double is called once, on NULL or on values of its type: for *)
(* Integer at the edges of the 32-bit range and around 0.                  *)
(***************************************************************************)
EdgeValues ==
    {I32Min, I32Min + 1, I32Max - 1, I32Max} \cup {n \in (-MaxConst)..MaxConst : TRUE}

IntegerArithmetic == {"Plus", "Minus", "Multiply", "Modulo"}

\* the operands the evaluator of type ty for op is called on; the quotient of the
\* least Int32 is left out, Ratio keeping numerators within 32 bits
EvaluatorOperands(ty, op) ==
    {VNull} \cup (IF ty = "Integer"
                  THEN {I32(n) : n \in EdgeValues \ (IF op = "Divide" THEN {I32Min} ELSE {})}
                  ELSE {F64(n, 1) : n \in (-1)..MaxConst} \cup {F64(1, 2), NaN})

InitEval ==
    /\ graph = Chain(<<ScanT1>>)
    /\ overflow_checks \in BOOLEAN
    /\ version = 0
    /\ rule = "none"
    /\ at = 0
    /\ result = "none"
    /\ pre = [graph |-> graph, version |-> 0]
    /\ applied = 0
    /\ scan = NoScan
    /\ call = NoCall
    /\ \E ty \in {"Integer", "Double"} :
          \/ \E op \in NumericOps :
             \E l \in EvaluatorOperands(ty, op), r \in EvaluatorOperands(ty, op) :
                evaluation = [kind |-> "Binary", ty |-> ty, op |-> op, l |-> l, r |-> r,
                              out |-> [res |-> "None"]]
          \/ \E op \in {"Minus", "Plus"} : \E l \in EvaluatorOperands(ty, op) :
                evaluation = [kind |-> "Unary", ty |-> ty, op |-> op, l |-> l, r |-> VNull,
                              out |-> [res |-> "None"]]

\* EvaluatorFactory::binary_create(ty, op), then binary_eval on two operands
BinaryEvaluate ==
    /\ evaluation.kind = "Binary"
    /\ evaluation.out.res = "None"
    /\ evaluation' =
          [evaluation EXCEPT !.out =
              binary_eval(binary_create(evaluation.ty, evaluation.op).v,
                          evaluation.l, evaluation.r)]
    /\ UNCHANGED <<graph, version, rule, at, result, pre, applied, scan, call,
                   overflow_checks>>

\* EvaluatorFactory::unary_create(ty, op), then unary_eval on an operand
UnaryEvaluate ==
    /\ evaluation.kind = "Unary"
    /\ evaluation.out.res = "None"
    /\ evaluation' =
          [evaluation EXCEPT !.out =
              unary_eval(unary_create(evaluation.ty, evaluation.op).v, evaluation.l)]
    /\ UNCHANGED <<graph, version, rule, at, result, pre, applied, scan, call,
                   overflow_checks>>

NextEval == BinaryEvaluate \/ UnaryEvaluate

SpecEval == InitEval /\ [][NextEval]_vars

(***************************************************************************)
(* BindEvaluator: the pass that attaches an evaluator to every Unary and   *)
(* Binary node of an expression before execution.  Its `visit` is the      *)
(* default of VisitorMut, walk_mut_expr, which hands a Unary to            *)
(* visit_unary, a Binary to visit_binary and visits the children of every  *)
(* other node in order.  The expression is rewritten in place: what a      *)
(* failed pass wrote before it failed stays.                               *)
(***************************************************************************)
Bound(st, e) == [st |-> st, e |-> e]

\* LogicalType::is_unsigned_numeric
is_unsigned_numeric(ty) == ty \in {"UTinyint", "USmallint", "UInteger", "UBigint"}

\* the signed type of the same width
Signed(ty) ==
    CASE ty = "UTinyint" -> "Tinyint"
      [] ty = "USmallint" -> "Smallint"
      [] ty = "UInteger" -> "Integer"
      [] OTHER -> "Bigint"

\* BindEvaluator::visit_unary once the operand is visited
UnaryBound(e, operand, ty, ev) ==
    IF operand.st # "Ok" THEN Bound(operand.st, [e EXCEPT !.expr = operand.e])
    ELSE IF ev.res # "Ok"
    THEN Bound("Err", [e EXCEPT !.expr = IF is_unsigned_numeric(ty)
                                         THEN TypeCast(operand.e, Signed(ty))
                                         ELSE operand.e])
    ELSE Bound("Ok", [e EXCEPT !.expr = IF is_unsigned_numeric(ty)
                                        THEN TypeCast(operand.e, Signed(ty))
                                        ELSE operand.e,
                               !.evaluator = ev.v])

\* variant: no operand is cast
fn_cast_none(expr, ty) == expr

\* fn_cast of BindEvaluator::visit_binary
fn_cast(expr, ty) == IF return_type(expr) # ty THEN TypeCast(expr, ty) ELSE expr

\* BindEvaluator::visit_binary once both operands are visited and their type is known
BinaryBound(e, left, right, ty, ev) ==
    IF ty.res # "Ok" THEN Bound("Err", [e EXCEPT !.left_expr = left, !.right_expr = right])
    ELSE IF ev.res # "Ok"
    THEN Bound("Err", [e EXCEPT !.left_expr = fn_cast(left, ty.v),
                                !.right_expr = fn_cast(right, ty.v)])
    ELSE Bound("Ok", [e EXCEPT !.left_expr = fn_cast(left, ty.v),
                               !.right_expr = fn_cast(right, ty.v),
                               !.evaluator = ev.v])

\* the type of the operands, then the evaluator for it
BinaryTypedBound(e, left, right, ty) ==
    BinaryBound(e, left, right, ty,
                IF ty.res = "Ok" THEN binary_create(ty.v, e.op) ELSE ty)

\* BindEvaluator::visit_binary: `self.visit(left_expr)?; self.visit(right_expr)?;`
BinaryOperandsBound(e, left, right) ==
    IF left.st # "Ok" THEN Bound(left.st, [e EXCEPT !.left_expr = left.e])
    ELSE IF right.st # "Ok"
    THEN Bound(right.st, [e EXCEPT !.left_expr = left.e, !.right_expr = right.e])
    ELSE BinaryTypedBound(e, left.e, right.e,
                          max_logical_type(return_type(left.e), return_type(right.e)))

\* the children of another node, visited in order up to the first failure
ChildBound(cs, i, c) == Bound(c.st, [cs EXCEPT ![i] = c.e])

RECURSIVE BindEvaluator_visit(_), BindEvaluator_walk(_, _), BindEvaluator_next(_, _, _)
BindEvaluator_walk(cs, i) ==
    IF i > Len(cs) THEN Bound("Ok", cs)
    ELSE BindEvaluator_next(cs, i, BindEvaluator_visit(cs[i]))

BindEvaluator_next(cs, i, c) ==
    IF c.st # "Ok" THEN ChildBound(cs, i, c)
    ELSE BindEvaluator_walk([cs EXCEPT ![i] = c.e], i + 1)

BindEvaluator_visit(e) ==
    CASE e.k = "Unary" ->
            UnaryBound(e, BindEvaluator_visit(e.expr),
                       return_type(BindEvaluator_visit(e.expr).e),
                       unary_create(return_type(BindEvaluator_visit(e.expr).e), e.op))
      [] e.k = "Binary" ->
            BinaryOperandsBound(e, BindEvaluator_visit(e.left_expr),
                                IF BindEvaluator_visit(e.left_expr).st = "Ok"
                                THEN BindEvaluator_visit(e.right_expr)
                                ELSE Bound("Ok", e.right_expr))
      [] OTHER ->
            Bound(BindEvaluator_walk(Children(e), 1).st,
                  WithChildren(e, BindEvaluator_walk(Children(e), 1).e))

\* the expressions handed to the pass: constants of every type of the model, a
\* column, unary and binary nodes over them as the binder builds them
BindLeaves ==
    {K(1), Constant(F64(1, 2)), Constant(VNull), Constant(VTrue), Constant(Utf8("a")), c1}

UnsignedLeaves == {Constant(U32(1))}

BindUnaries ==
    {Unary(op, x, return_type(x)) :
        op \in {"Minus", "Plus", "Not"}, x \in BindLeaves \cup UnsignedLeaves}

BindOps == {"Plus", "Gt", "And"}

BinaryOf(op, l, r) ==
    Binary(op, l, r, IF op = "Plus" THEN return_type(l) ELSE "Boolean")

BindBinaries ==
    {BinaryOf(op, l, r) : op \in BindOps, l \in BindLeaves, r \in BindLeaves}

BindInputs ==
    BindLeaves \cup BindUnaries \cup BindBinaries
    \cup {BinaryOf(op, l, r) :
            op \in {"Plus", "Gt"},
            l \in {b \in BindBinaries : b.op = "Plus"} \cup BindUnaries,
            r \in {K(1), Constant(F64(1, 2)), Constant(VNull)}}
    \cup {IsNull(FALSE, b) : b \in BindBinaries}
    \cup {Unary("Minus", Alias(b, "a"), return_type(b)) :
            b \in {b \in BindBinaries : b.op = "Plus"}}

\* the state of a machine that is not running
Idle ==
    /\ graph = Chain(<<ScanT1>>)
    /\ overflow_checks = TRUE
    /\ version = 0
    /\ rule = "none"
    /\ at = 0
    /\ result = "none"
    /\ pre = [graph |-> graph, version |-> 0]
    /\ applied = 0
    /\ scan = NoScan
    /\ evaluation = NoEvaluation

Pending == [res |-> "None"]

InitBind ==
    /\ Idle
    /\ \E expr \in BindInputs :
          call = [to |-> "BindEvaluator", expr |-> expr, out |-> Pending]

\* BindEvaluator.visit(&mut expr)
Bind ==
    /\ call.to = "BindEvaluator"
    /\ call.out = Pending
    /\ call' = [call EXCEPT !.out = BindEvaluator_visit(call.expr)]
    /\ UNCHANGED <<graph, version, rule, at, result, pre, applied, scan, evaluation,
                   overflow_checks>>

SpecBind == InitBind /\ [][Bind]_vars

(***************************************************************************)
(* Binder::bind_alter_table.  An ObjectName is a sequence of identifiers;  *)
(* the catalog is the set of tables the binder context finds.              *)
(***************************************************************************)
NoOption == [some |-> FALSE]
LogicalPlan(operator, childrens, physical_option) ==
    [operator |-> operator, childrens |-> childrens, physical_option |-> physical_option]

\* TableScanOperator::build(table_name, table, true)
TableScanOperator_build(table_name) ==
    LogicalPlan(TableScan(table_name, ColumnsOf(table_name)), <<>>, NoOption)

\* lower_ident
Lower(ident) ==
    CASE ident = "T1" -> "t1"
      [] ident = "T2" -> "t2"
      [] OTHER -> ident

\* lower_case_name
lower_case_name(name) ==
    IF Len(name) = 1 THEN Ok(Lower(name[1])) ELSE Err("InvalidTable")

\* is_valid_identifier: letters, digits and `_`, no leading digit, not `_` alone
ColumnNames == {"c5", "5c", "_", "c-5"}
is_valid_identifier(s) == s = "c5"

ObjectNames == {<<"t1">>, <<"T1">>, <<"t2">>, <<"t3">>, <<"s", "t1">>}
Catalogs == SUBSET {"t1", "t2"}

AddColumnOperation(if_not_exists, column, binds) ==
    [k |-> "AddColumn", if_not_exists |-> if_not_exists, column |-> column, binds |-> binds]
DropColumnOperation(column_name, if_exists) ==
    [k |-> "DropColumn", column_name |-> column_name, if_exists |-> if_exists]

\* AlterTableOperation; `binds` says whether bind_column accepts the column definition
AlterTableOperations ==
    {AddColumnOperation(b, c, binds) : b \in BOOLEAN, c \in ColumnNames, binds \in BOOLEAN}
    \cup {DropColumnOperation(c, b) : c \in ColumnNames, b \in BOOLEAN}
    \cup {[k |-> other] : other \in {"RenameTable", "RenameColumn", "AddConstraint"}}

\* the arms of `match operation`, the table found
AlterPlan(table_name, operation) ==
    CASE operation.k = "AddColumn" ->
            IF ~operation.binds THEN Err("BindColumn")
            ELSE IF ~is_valid_identifier(operation.column) THEN Err("InvalidColumn")
            ELSE Ok(LogicalPlan([k |-> "AddColumn", table_name |-> table_name,
                                 if_not_exists |-> operation.if_not_exists,
                                 column |-> operation.column],
                                <<TableScanOperator_build(table_name)>>, NoOption))
      [] operation.k = "DropColumn" ->
            Ok(LogicalPlan([k |-> "DropColumn", table_name |-> table_name,
                            if_exists |-> operation.if_exists,
                            column_name |-> operation.column_name],
                           <<TableScanOperator_build(table_name)>>, NoOption))
      [] OTHER -> Err("UnsupportedStmt")

\* Binder::bind_alter_table; `lookup` is what the storage answers to context.table
bind_alter_table(tables, lookup, name, operation) ==
    IF lower_case_name(name).res # "Ok" THEN lower_case_name(name)
    ELSE IF lookup.res # "Ok" THEN lookup
    ELSE IF lower_case_name(name).v \notin tables THEN Err("TableNotFound")
    ELSE AlterPlan(lower_case_name(name).v, operation)

InitAlter ==
    /\ Idle
    /\ \E tables \in Catalogs, lookup \in {Ok("table"), Err("Storage")},
          name \in ObjectNames, operation \in AlterTableOperations :
          call = [to |-> "bind_alter_table", tables |-> tables, lookup |-> lookup,
                  name |-> name, operation |-> operation, out |-> Pending]

\* binder.bind_alter_table(name, operation)
BindAlterTable ==
    /\ call.to = "bind_alter_table"
    /\ call.out = Pending
    /\ call' = [call EXCEPT !.out =
                   bind_alter_table(call.tables, call.lookup, call.name, call.operation)]
    /\ UNCHANGED <<graph, version, rule, at, result, pre, applied, scan, evaluation,
                   overflow_checks>>

SpecAlter == InitAlter /\ [][BindAlterTable]_vars

(***************************************************************************)
(* execution: build_read and build_write turn the root of a LogicalPlan    *)
(* into an executor; the children stay plans until that executor runs.     *)
(***************************************************************************)
SomeOption(option) == [some |-> TRUE, v |-> option]
NoRange == [some |-> FALSE]
SomeRange(range) == [some |-> TRUE, v |-> range]
IndexInfo(meta, range) == [k |-> "IndexScan", meta |-> meta, range |-> range]

PhysicalOptions ==
    {NoOption}
    \cup {SomeOption([k |-> o]) : o \in {"SeqScan", "HashJoin", "Filter"}}
    \cup {SomeOption(IndexInfo(meta, range)) :
            meta \in {"pk_c1", "idx_c2"},
            range \in {NoRange, SomeRange("Eq"), SomeRange("Scope")}}

\* an executor: its kind, what it was built from, and whether by execute_mut
Executor(kind, from, mut) == [kind |-> kind, from |-> from, mut |-> mut]

ReadKinds == {"Dummy", "Filter", "Project", "Sort", "Limit", "Values", "Explain"}
WriteWithInput ==
    {"Insert", "Update", "Delete", "AddColumn", "DropColumn", "CreateIndex", "Analyze"}
WriteAlone ==
    {"CreateTable", "CreateView", "DropTable", "DropView", "DropIndex", "Truncate",
     "CopyFromFile"}

\* variant: a TableScan is always read sequentially
build_read_seq(plan) ==
    CASE plan.operator.k = "Aggregate" ->
            Ok(Executor(IF plan.operator.groupby_exprs = <<>> THEN "SimpleAggExecutor"
                        ELSE "HashAggExecutor",
                        <<plan.operator, plan.childrens[1]>>, FALSE))
      [] plan.operator.k = "Join" ->
            Ok(Executor(IF plan.operator.on # <<>>
                           /\ plan.physical_option = SomeOption([k |-> "HashJoin"])
                        THEN "HashJoin" ELSE "NestedLoopJoin",
                        <<plan.operator, plan.childrens[1], plan.childrens[2]>>, FALSE))
      [] plan.operator.k = "TableScan" -> Ok(Executor("SeqScan", <<plan.operator>>, FALSE))
      [] plan.operator.k \in {"Filter", "Project", "Sort", "Limit"} ->
            Ok(Executor(plan.operator.k, <<plan.operator, plan.childrens[1]>>, FALSE))
      [] plan.operator.k = "Explain" -> Ok(Executor("Explain", <<plan.childrens[1]>>, FALSE))
      [] plan.operator.k = "Values" -> Ok(Executor("Values", <<plan.operator>>, FALSE))
      [] plan.operator.k = "Dummy" -> Ok(Executor("Dummy", <<>>, FALSE))
      [] OTHER -> Panic

\* build_read
build_read(plan) ==
    CASE plan.operator.k = "Aggregate" ->
            Ok(Executor(IF plan.operator.groupby_exprs = <<>> THEN "SimpleAggExecutor"
                        ELSE "HashAggExecutor",
                        <<plan.operator, plan.childrens[1]>>, FALSE))
      [] plan.operator.k = "Join" ->
            Ok(Executor(IF plan.operator.on # <<>>
                           /\ plan.physical_option = SomeOption([k |-> "HashJoin"])
                        THEN "HashJoin" ELSE "NestedLoopJoin",
                        <<plan.operator, plan.childrens[1], plan.childrens[2]>>, FALSE))
      [] plan.operator.k = "TableScan" ->
            IF /\ plan.physical_option.some
               /\ plan.physical_option.v.k = "IndexScan"
               /\ plan.physical_option.v.range.some
            THEN Ok(Executor("IndexScan",
                             <<plan.operator, plan.physical_option.v.meta,
                               plan.physical_option.v.range.v>>, FALSE))
            ELSE Ok(Executor("SeqScan", <<plan.operator>>, FALSE))
      [] plan.operator.k \in {"Filter", "Project", "Sort", "Limit"} ->
            Ok(Executor(plan.operator.k, <<plan.operator, plan.childrens[1]>>, FALSE))
      [] plan.operator.k = "Explain" -> Ok(Executor("Explain", <<plan.childrens[1]>>, FALSE))
      [] plan.operator.k = "Values" -> Ok(Executor("Values", <<plan.operator>>, FALSE))
      [] plan.operator.k = "Dummy" -> Ok(Executor("Dummy", <<>>, FALSE))
      [] OTHER -> Panic

\* build_write
build_write(plan) ==
    CASE plan.operator.k \in WriteWithInput ->
            Ok(Executor(plan.operator.k, <<plan.operator, plan.childrens[1]>>, TRUE))
      [] plan.operator.k \in WriteAlone ->
            Ok(Executor(plan.operator.k, <<plan.operator>>, TRUE))
      [] plan.operator.k = "CopyToFile" ->
            Ok(Executor("CopyToFile", <<plan.operator, plan.childrens[1]>>, FALSE))
      [] OTHER -> build_read(LogicalPlan(plan.operator, plan.childrens, plan.physical_option))

\* the plans handed to the builders: a scan, an operator over a scan, a join of two
ScanPlans ==
    {LogicalPlan(table, <<>>, option) : table \in {ScanT1, ScanT2}, option \in PhysicalOptions}

BuildOperators ==
    {Filter(Cmp("Gt", c1, K(1))), Project(<<c1>>), Sort(<<c1>>), Limit, Explain,
     Aggregate(<<>>, <<>>, FALSE), Aggregate(<<c1>>, <<>>, FALSE)}
    \cup {[k |-> kind] : kind \in WriteWithInput \cup {"CopyToFile"}}

BuildPlans ==
    ScanPlans
    \cup {LogicalPlan(operator, <<input>>, option) :
            operator \in BuildOperators,
            input \in {s \in ScanPlans : s.operator = ScanT1 /\ s.physical_option.some},
            option \in {NoOption, SomeOption([k |-> "Filter"])}}
    \cup {LogicalPlan([k |-> kind], <<>>, NoOption) : kind \in WriteAlone \cup {"Dummy", "Values"}}
    \cup {LogicalPlan(Join(on, <<>>), <<LogicalPlan(ScanT1, <<>>, NoOption),
                                        LogicalPlan(ScanT2, <<>>, NoOption)>>, option) :
            on \in {<<>>, <<<<c1, ColumnRef("c3")>>>>},
            option \in {NoOption, SomeOption([k |-> "HashJoin"])}}

InitBuild ==
    /\ Idle
    /\ \E plan \in BuildPlans, to \in {"build_read", "build_write"} :
          call = [to |-> to, plan |-> plan, out |-> Pending]

\* build_read(plan, cache, transaction)
BuildRead ==
    /\ call.to = "build_read"
    /\ call.out = Pending
    /\ call' = [call EXCEPT !.out = build_read(call.plan)]
    /\ UNCHANGED <<graph, version, rule, at, result, pre, applied, scan, evaluation,
                   overflow_checks>>

\* build_write(plan, cache, transaction)
BuildWrite ==
    /\ call.to = "build_write"
    /\ call.out = Pending
    /\ call' = [call EXCEPT !.out = build_write(call.plan)]
    /\ UNCHANGED <<graph, version, rule, at, result, pre, applied, scan, evaluation,
                   overflow_checks>>

NextBuild == BuildRead \/ BuildWrite

SpecBuild == InitBuild /\ [][NextBuild]_vars

(***************************************************************************)
(* TryReference: the expressions of an operator are resolved against the   *)
(* output schema of its child.  A position is an index from 0.             *)
(***************************************************************************)
\* variant: the last match of the schema is taken
RECURSIVE find_position_last(_, _, _)
find_position_last(output_exprs, self_column, i) ==
    LET last == Len(output_exprs) + 1 - i
    IN IF i > Len(output_exprs) THEN None
       ELSE IF summary(self_column) = summary(output_column(output_exprs[last]))
            THEN Some(last - 1)
            ELSE find_position_last(output_exprs, self_column, i + 1)

\* output_exprs.iter().find_position(|expr| self_column.summary() ==
\* expr.output_column().summary()), from the i-th element on
RECURSIVE find_position(_, _, _)
find_position(output_exprs, self_column, i) ==
    IF i > Len(output_exprs) THEN None
    ELSE IF summary(self_column) = summary(output_column(output_exprs[i]))
         THEN Some(i - 1)
         ELSE find_position(output_exprs, self_column, i + 1)

\* TryReference::visit: the expression is taken out of its place, its operands are
\* visited, and the place gets the expression back, under a Reference if the schema
\* has its column
RECURSIVE TryReference_visit(_, _)
TryReference_visit(output_exprs, expr) ==
    LET operands == Children(expr)
        clone_expr ==
            WithChildren(expr, [i \in DOMAIN operands |->
                                   TryReference_visit(output_exprs, operands[i])])
        self_column == output_column(clone_expr)
        found == find_position(output_exprs, self_column, 1)
    IN IF found # None THEN Reference(clone_expr, found.v) ELSE clone_expr

\* the expressions a child may output
SchemaExprs ==
    {c1, c2, Arith("Plus", c1, K(1)), Alias(c2, "a"), Alias(c2, "(t1.c1 + 1)")}

MaxSchema == 3

Schemas == UNION {[1..n -> SchemaExprs] : n \in 0..MaxSchema}

\* the expressions of the parent
ReferenceInputs ==
    {c1, c2, c3, K(1), Arith("Plus", c1, K(1)), Arith("Plus", c2, K(1)),
     Neg(Arith("Plus", c1, K(1))), Cmp("Gt", Arith("Plus", c1, K(1)), c2),
     Alias(Arith("Plus", c1, K(1)), "a"), Alias(c1, "b"),
     AggCall(FALSE, "Sum", <<Arith("Plus", c1, K(1))>>, "Integer"),
     AggCall(FALSE, "Count", <<c1, c2>>, "Integer")}

InitReference ==
    /\ Idle
    /\ \E output_exprs \in Schemas, expr \in ReferenceInputs :
          call = [to |-> "TryReference", output_exprs |-> output_exprs, expr |-> expr,
                  out |-> Pending]

\* TryReference::new(output_exprs).visit(&mut expr)
Resolve ==
    /\ call.to = "TryReference"
    /\ call.out = Pending
    /\ call' = [call EXCEPT
                   !.out = Ok(TryReference_visit(call.output_exprs, call.expr))]
    /\ UNCHANGED <<graph, version, rule, at, result, pre, applied, scan, evaluation,
                   overflow_checks>>

SpecReference == InitReference /\ [][Resolve]_vars

(***************************************************************************)
(* Simplify::visit call by call.  The stack holds the calls in progress,   *)
(* innermost last; a node of the expression is named by the path of        *)
(* operand indices that leads to it.                                       *)
(***************************************************************************)
RECURSIVE At(_, _)
At(e, path) == IF path = <<>> THEN e ELSE At(Children(e)[Head(path)], Tail(path))

RECURSIVE Put(_, _, _)
Put(e, path, x) ==
    IF path = <<>> THEN x
    ELSE WithChildren(e, [Children(e) EXCEPT
                             ![Head(path)] = Put(Children(e)[Head(path)], Tail(path), x)])

\* visit(expr) before its match
VisitCall(path) == [f |-> "visit", path |-> path]
\* walk_mut_expr(self, expr) before it visits the i-th operand
WalkCall(path, i) == [f |-> "walk_mut_expr", path |-> path, i |-> i]
\* the Binary arm of visit: pc tells which fix_expr has returned
BinaryArm(path, pc) == [f |-> "Binary", path |-> path, pc |-> pc]
\* fix_expr(left_expr, right_expr, op), or fix_expr(right_expr, left_expr, op) when
\* swapped; pc is "visit" before self.visit(left_expr), "visited" after, "loop" in
\* the while loop
FixExprCall(path, swapped, pc) ==
    [f |-> "fix_expr", path |-> path, swapped |-> swapped, pc |-> pc]

\* the deepest stack of calls followed
MaxDepth == 16

Top == call.stack[Len(call.stack)]
Callers == SubSeq(call.stack, 1, Len(call.stack) - 1)
Node == At(call.expr, Top.path)

OnTop(f) == call.to = "Simplify" /\ call.stack # <<>> /\ Top.f = f

\* the operands and the operator of the Binary node fix_expr works on
FrameOf(node, swapped, rep) ==
    IF swapped THEN Frame(node.right_expr, node.left_expr, node.op, rep, "Ok")
    ELSE Frame(node.left_expr, node.right_expr, node.op, rep, "Ok")

\* the node with the operands and the operator as fix_expr left them
NodeOf(node, swapped, s) ==
    IF swapped THEN [node EXCEPT !.left_expr = s.r, !.right_expr = s.l, !.op = s.op]
    ELSE [node EXCEPT !.left_expr = s.l, !.right_expr = s.r, !.op = s.op]

\* the call on top wrote r.expr to its node and r.rep to self.replaces; it goes on
\* with the calls `next` in its place, or `?` and a panic end the run
Gone(r, next) ==
    [call EXCEPT !.expr = Put(call.expr, Top.path, r.expr),
                 !.replaces = r.rep,
                 !.st = r.st,
                 !.stack = IF r.st = "Ok" THEN Callers \o next ELSE <<>>]

Stay(next) == [call EXCEPT !.stack = Callers \o next]

Others == <<graph, version, rule, at, result, pre, applied, scan, evaluation,
            overflow_checks>>

\* the Unary arm
VisitUnary ==
    /\ OnTop("visit")
    /\ Node.k = "Unary"
    /\ call' = Gone(UnaryUnpacked(unpack_val(Node), Node, call.replaces), <<>>)
    /\ UNCHANGED Others

\* the TypeCast and IsNull arms
VisitFold ==
    /\ OnTop("visit")
    /\ Node.k \in {"TypeCast", "IsNull"}
    /\ call' = Gone(Unpacked(unpack_val(Node),
                             IF Node.k = "TypeCast" THEN Constant(unpack_val(Node).v)
                             ELSE Constant(VBool(unpack_val(Node).v = VNull)),
                             Node, call.replaces), <<>>)
    /\ UNCHANGED Others

\* the Binary arm: `self.fix_expr(left_expr, right_expr, op)?`
VisitBinary ==
    /\ OnTop("visit")
    /\ Node.k = "Binary"
    /\ Len(call.stack) < MaxDepth
    /\ call' = Stay(<<BinaryArm(Top.path, "first"), FixExprCall(Top.path, FALSE, "visit")>>)
    /\ UNCHANGED Others

\* the Binary arm: `self.fix_expr(right_expr, left_expr, op)?`
BinaryOther ==
    /\ OnTop("Binary")
    /\ Top.pc = "first"
    /\ Len(call.stack) < MaxDepth
    /\ call' = Stay(<<BinaryArm(Top.path, "second"), FixExprCall(Top.path, TRUE, "visit")>>)
    /\ UNCHANGED Others

\* the Binary arm after both fix_expr: a ReplaceBinary pushed for an arithmetic node
BinaryPush ==
    /\ OnTop("Binary")
    /\ Top.pc = "second"
    /\ LET s == PushBinary(FrameOf(Node, FALSE, call.replaces), Node.ty)
       IN call' = Gone(Simplified(s.st, NodeOf(Node, FALSE, s), s.rep), <<>>)
    /\ UNCHANGED Others

\* the In and Between arms: the node expanded, then walk_mut_expr
VisitExpand ==
    /\ OnTop("visit")
    /\ Node.k \in {"In", "Between"}
    /\ call' =
          IF Node.k = "In" /\ Node.args = <<>> THEN Stay(<<>>)
          ELSE Gone(Simplified("Ok",
                               IF Node.k = "Between" THEN BetweenExpansion(Node)
                               ELSE InExpansion(Node.expr, Node.args, Len(Node.args),
                                                IF Node.negated THEN "NotEq" ELSE "Eq",
                                                IF Node.negated THEN "And" ELSE "Or"),
                               call.replaces),
                    <<WalkCall(Top.path, 1)>>)
    /\ UNCHANGED Others

\* `_ => walk_mut_expr(self, expr)?`
VisitOther ==
    /\ OnTop("visit")
    /\ Node.k \notin {"Unary", "Binary", "TypeCast", "IsNull", "In", "Between"}
    /\ call' = Stay(<<WalkCall(Top.path, 1)>>)
    /\ UNCHANGED Others

\* walk_mut_expr: the next operand visited, or the return after the last
Walk ==
    /\ OnTop("walk_mut_expr")
    /\ IF Top.i > Len(Children(Node)) THEN call' = Stay(<<>>)
       ELSE /\ Len(call.stack) < MaxDepth
            /\ call' = Stay(<<WalkCall(Top.path, Top.i + 1),
                              VisitCall(Top.path \o <<Top.i>>)>>)
    /\ UNCHANGED Others

\* fix_expr: `self.visit(left_expr)?`
FixExprVisit ==
    /\ OnTop("fix_expr")
    /\ Top.pc = "visit"
    /\ Len(call.stack) < MaxDepth
    /\ call' = Stay(<<[Top EXCEPT !.pc = "visited"],
                      VisitCall(Top.path \o <<IF Top.swapped THEN 2 ELSE 1>>)>>)
    /\ UNCHANGED Others

\* fix_expr: `if Self::is_arithmetic(op) { return Ok(()) }`
FixExprVisited ==
    /\ OnTop("fix_expr")
    /\ Top.pc = "visited"
    /\ call' = IF is_arithmetic(Node.op) THEN Stay(<<>>)
               ELSE Stay(<<[Top EXCEPT !.pc = "loop"]>>)
    /\ UNCHANGED Others

\* fix_expr: self.replaces.pop() is None
FixExprReturn ==
    /\ OnTop("fix_expr")
    /\ Top.pc = "loop"
    /\ call.replaces = <<>>
    /\ call' = Stay(<<>>)
    /\ UNCHANGED Others

\* what self.replaces.pop() gives and leaves
Popped == call.replaces[Len(call.replaces)]
Left == SubSeq(call.replaces, 1, Len(call.replaces) - 1)

\* fix_expr: a Replace::Binary popped, fix_binary
FixBinary ==
    /\ OnTop("fix_expr")
    /\ Top.pc = "loop"
    /\ call.replaces # <<>>
    /\ Popped.k = "Binary"
    /\ LET s == fix_binary(Popped, FrameOf(Node, Top.swapped, Left))
       IN call' = Gone(Simplified(s.st, NodeOf(Node, Top.swapped, s), s.rep), <<Top>>)
    /\ UNCHANGED Others

\* fix_expr: a Replace::Unary popped, fix_unary and then
\* `self.fix_expr(left_expr, right_expr, op)?`
FixUnary ==
    /\ OnTop("fix_expr")
    /\ Top.pc = "loop"
    /\ call.replaces # <<>>
    /\ Popped.k = "Unary"
    /\ Len(call.stack) < MaxDepth
    /\ LET s == fix_unary(Popped, FrameOf(Node, Top.swapped, Left))
       IN call' = Gone(Simplified(s.st, NodeOf(Node, Top.swapped, s), s.rep),
                       <<Top, FixExprCall(Top.path, Top.swapped, "visit")>>)
    /\ UNCHANGED Others

\* a unary operator on both sides of a comparison, up to three deep
UnaryBoth ==
    {Cmp(op, l, r) :
        op \in {"Gt", "Eq"},
        l \in {Neg(c1), Neg(Neg(c1)), Neg(Neg(Neg(c1))), Neg(Arith("Plus", c1, K(1))),
               Unary("Not", Neg(c1), "Integer"), Arith("Plus", Neg(c1), Neg(c2))},
        r \in {Neg(c2), Neg(Neg(c2)), Neg(K(1)), Arith("Minus", K(1), Neg(c2))}}

SimplifyInputs ==
    UnaryBoth \cup TwoColumns \cup Connectives \cup Modulos \cup Aliased \cup Edges
    \cup NestedColumn \cup IsNulls
    \cup {p \in InLists \cup Betweens : ~p.negated}
    \cup {p \in SingleColumn : p.op \in {"Gt", "Eq"} /\ p.right_expr = K(1)}

\* Simplify::default().visit(&mut expr)
InitSimplify ==
    /\ Idle
    /\ \E expr \in SimplifyInputs :
          call = [to |-> "Simplify", input |-> expr, expr |-> expr, replaces |-> <<>>,
                  stack |-> <<VisitCall(<<>>)>>, st |-> "Ok"]

NextSimplify ==
    \/ VisitUnary \/ VisitFold \/ VisitBinary \/ BinaryOther \/ BinaryPush
    \/ VisitExpand \/ VisitOther \/ Walk
    \/ FixExprVisit \/ FixExprVisited \/ FixExprReturn \/ FixBinary \/ FixUnary

\* a call in progress always goes on: the run is one thread
SpecSimplify == InitSimplify /\ [][NextSimplify]_vars /\ WF_vars(NextSimplify)

(***************************************************************************)
(* Properties.  After SimplifyFilter rewrote a Filter, SimplifyInput is    *)
(* the predicate Simplify::visit received (the constant-folded predicate)  *)
(* and SimplifyOutput the predicate it left in the graph.                  *)
(***************************************************************************)
SimplifyApplied ==
    /\ rule = "SimplifyFilter"
    /\ result = "Ok"
    /\ pre.graph.nodes[at].k = "Filter"
    /\ ~pre.graph.nodes[at].is_optimized

SimplifyInput == ConstantCalculator_visit(pre.graph.nodes[at].predicate).expr
SimplifyOutput == graph.nodes[at].predicate

\* TRUE, FALSE, NULL (or another value), or error
Outcome(r) == IF r.res = "Ok" THEN r ELSE [res |-> "Error"]

\* C1: for every filter predicate P and every tuple t, evaluating Simplify(P) on t
\* gives the same outcome as evaluating P on t.
C1_SimplificationEquivalence ==
    SimplifyApplied =>
        \A tuple \in Tuples :
            Outcome(Eval(SimplifyOutput, tuple)) = Outcome(Eval(SimplifyInput, tuple))

\* C2: when Simplify returns Ok on a predicate that holds no Empty node, the
\* predicate it leaves holds no Empty node either.
C2_EmptyNeverSurvives ==
    (SimplifyApplied /\ ~ContainsEmpty(SimplifyInput)) => ~ContainsEmpty(SimplifyOutput)

\* the inverse of an arithmetic operator, and a comparator with its sides exchanged
Inverse(op) ==
    CASE op = "Plus" -> "Minus"
      [] op = "Minus" -> "Plus"
      [] op = "Multiply" -> "Divide"
      [] OTHER -> "Multiply"

Flipped(cmp) ==
    CASE cmp = "Gt" -> "Lt"
      [] cmp = "Lt" -> "Gt"
      [] cmp = "GtEq" -> "LtEq"
      [] cmp = "LtEq" -> "GtEq"
      [] OTHER -> cmp

IsComparison(e) == e.k = "Binary" /\ e.op \in CmpOps

\* c, (c op k), ((c op k) op k'), ..: the column on the left at every level
RECURSIVE IsColumnLeftNest(_)
IsColumnLeftNest(e) ==
    \/ e.k = "ColumnRef"
    \/ /\ e.k = "Binary"
       /\ e.op \in ArithOps
       /\ e.right_expr.k = "Constant"
       /\ IsColumnLeftNest(e.left_expr)

RECURSIVE NestColumn(_)
NestColumn(e) == IF e.k = "ColumnRef" THEN e ELSE NestColumn(e.left_expr)

\* the constant side after the push-downs of a column-left nest, outermost first
RECURSIVE PushedDown(_, _)
PushedDown(e, rhs) ==
    IF e.k = "ColumnRef" THEN rhs
    ELSE PushedDown(e.left_expr, Binary(Inverse(e.op), rhs, e.right_expr, e.ty))

\* C6: a comparison (c op k) cmp rhs with the column on the left is rewritten to
\* c cmp (rhs op' k), op' the inverse operator, the comparator unchanged; nested
\* arithmetic is pushed down from the outermost operator inward.
C6_PushdownColumnLeft ==
    (/\ SimplifyApplied
     /\ IsComparison(SimplifyInput)
     /\ SimplifyInput.left_expr.k = "Binary"
     /\ IsColumnLeftNest(SimplifyInput.left_expr)
     /\ SimplifyInput.right_expr.k = "Constant")
    => SimplifyOutput =
          [SimplifyInput EXCEPT
              !.left_expr = NestColumn(SimplifyInput.left_expr),
              !.right_expr = PushedDown(SimplifyInput.left_expr, SimplifyInput.right_expr)]

\* ((c1 + 1) * b) > b has become c1 > ((b / b) - 1)
C6_Witness ==
    /\ SimplifyApplied
    /\ SimplifyInput =
          Cmp("Gt", Arith("Multiply", Arith("Plus", c1, K(1)), K(MaxConst)), K(MaxConst))
    /\ SimplifyOutput =
          Cmp("Gt", c1, Binary("Minus", Binary("Divide", K(MaxConst), K(MaxConst), "Integer"),
                               K(1), "Integer"))

\* C7: a comparison (k op c) cmp rhs with the column on the right is rewritten to
\* c cmp' (rhs op' k), op' the inverse of op and cmp' the flipped comparator exactly
\* when op is subtraction or multiplication; (k + c) cmp rhs becomes c cmp (rhs - k).
C7_PushdownColumnRight ==
    (/\ SimplifyApplied
     /\ IsComparison(SimplifyInput)
     /\ SimplifyInput.left_expr.k = "Binary"
     /\ SimplifyInput.left_expr.op \in ArithOps
     /\ SimplifyInput.left_expr.left_expr.k = "Constant"
     /\ SimplifyInput.left_expr.right_expr.k = "ColumnRef"
     /\ SimplifyInput.right_expr.k = "Constant")
    => LET inner == SimplifyInput.left_expr
       IN SimplifyOutput =
             [SimplifyInput EXCEPT
                 !.op = IF inner.op \in {"Minus", "Multiply"} THEN Flipped(@) ELSE @,
                 !.left_expr = inner.right_expr,
                 !.right_expr = Binary(Inverse(inner.op), SimplifyInput.right_expr,
                                       inner.left_expr, inner.ty)]

\* (u1 .. un c), each ui a unary + or -, n >= 0
RECURSIVE IsUnaryChain(_)
IsUnaryChain(e) ==
    \/ e.k = "ColumnRef"
    \/ e.k = "Unary" /\ e.op \in {"Plus", "Minus"} /\ IsUnaryChain(e.expr)

RECURSIVE Minuses(_)
Minuses(e) ==
    IF e.k = "ColumnRef" THEN 0 ELSE (IF e.op = "Minus" THEN 1 ELSE 0) + Minuses(e.expr)

RECURSIVE ChainColumn(_)
ChainColumn(e) == IF e.k = "ColumnRef" THEN e ELSE ChainColumn(e.expr)

\* a comparison of a unary chain over a column with a constant, as the rule met it
UnaryOnColumn(p) ==
    /\ IsComparison(p)
    /\ p.left_expr.k = "Unary"
    /\ IsUnaryChain(p.left_expr)
    /\ p.right_expr.k = "Constant"
    /\ p.right_expr.v.t = "Int32"

\* C8: for (u1 .. un c) cmp v Simplify yields a comparison whose left side is the bare
\* column, whose right side is v with the unary operators applied, and whose comparator
\* is swapped once per unary minus; no unary operator remains on the column side.
C8_UnaryElimination ==
    (/\ rule = "SimplifyFilter"
     /\ pre.graph.nodes[at].k = "Filter"
     /\ ~pre.graph.nodes[at].is_optimized
     /\ UnaryOnColumn(SimplifyInput))
    => LET odd == Minuses(SimplifyInput.left_expr) % 2 = 1
           v == SimplifyInput.right_expr.v.n
       IN /\ result = "Ok"
          /\ ~(odd /\ v = I32Min)
          /\ SimplifyOutput =
                [SimplifyInput EXCEPT
                    !.op = IF odd THEN Flipped(@) ELSE @,
                    !.left_expr = ChainColumn(SimplifyInput.left_expr),
                    !.right_expr = Constant(I32(IF odd THEN -v ELSE v))]

(***************************************************************************)
(* The range a simplified comparison gives the range detacher for its      *)
(* column: Eq(value), a Scope with a lower or an upper bound, or None.     *)
(***************************************************************************)
Unbounded == [b |-> "Unbounded"]
Included(v) == [b |-> "Included", v |-> v]
Excluded(v) == [b |-> "Excluded", v |-> v]
Scope(min, max) == [k |-> "Scope", min |-> min, max |-> max]
RangeEq(v) == [k |-> "Eq", v |-> v]

\* the range of `column op value`; is_flip when the comparison reads `value op column`
new_range(op, value, is_flip) ==
    LET o == IF is_flip THEN comparison_flip(op) ELSE op
    IN CASE o = "Gt" -> Some(Scope(Excluded(value), Unbounded))
         [] o = "GtEq" -> Some(Scope(Included(value), Unbounded))
         [] o = "Lt" -> Some(Scope(Unbounded, Excluded(value)))
         [] o = "LtEq" -> Some(Scope(Unbounded, Included(value)))
         [] o = "Eq" -> Some(RangeEq(value))
         [] OTHER -> None

\* RangeDetacher::detach on one comparison: a column on one side, a value on the other
detach(expr) ==
    IF expr.k # "Binary" THEN None
    ELSE LET lc == unpack_col(expr.left_expr, FALSE)
             rc == unpack_col(expr.right_expr, FALSE)
             lv == unpack_val(expr.left_expr)
             rv == unpack_val(expr.right_expr)
         IN CASE lc.res = "Some" /\ rv.res = "Some" -> new_range(expr.op, rv.v, FALSE)
              [] lv.res = "Some" /\ rc.res = "Some" -> new_range(expr.op, lv.v, TRUE)
              [] OTHER -> None

\* an expression over one column, unary minus and arithmetic against constants
RECURSIVE IsSingleColumnTerm(_)
IsSingleColumnTerm(e) ==
    \/ e.k = "ColumnRef"
    \/ e.k = "Unary" /\ e.op = "Minus" /\ IsSingleColumnTerm(e.expr)
    \/ /\ e.k = "Binary"
       /\ e.op \in ArithOps
       /\ \/ e.right_expr.k = "Constant" /\ IsSingleColumnTerm(e.left_expr)
          \/ e.left_expr.k = "Constant" /\ IsSingleColumnTerm(e.right_expr)

\* k cmp~ L for L cmp k
Mirror(p) ==
    [p EXCEPT !.op = Flipped(@), !.left_expr = p.right_expr, !.right_expr = p.left_expr]

\* SimplifyFilter on the mirrored predicate, in a plan of its own
Mirrored ==
    SimplifyFilter_apply(
        Chain(<<Project(<<c1, c2>>), Filter(Mirror(pre.graph.nodes[at].predicate)), ScanT1>>), 2)

SingleColumnComparison ==
    /\ rule = "SimplifyFilter"
    /\ pre.graph.nodes[at].k = "Filter"
    /\ ~pre.graph.nodes[at].is_optimized
    /\ IsComparison(pre.graph.nodes[at].predicate)
    /\ pre.graph.nodes[at].predicate.left_expr.k # "ColumnRef"
    /\ IsSingleColumnTerm(pre.graph.nodes[at].predicate.left_expr)
    /\ pre.graph.nodes[at].predicate.right_expr.k = "Constant"

\* C9: SimplifyFilter applied to L cmp k and to the mirrored predicate k cmp~ L give
\* predicates that constrain the column to the same range, and that range is not None.
C9_MirrorSymmetry ==
    SingleColumnComparison =>
        /\ result = "Ok"
        /\ Mirrored.st = "Ok"
        /\ detach(SimplifyOutput) = detach(Mirrored.g.nodes[2].predicate)
        /\ detach(SimplifyOutput) # None

\* the operands of a chain of `op` nodes, left to right
RECURSIVE Operands(_, _)
Operands(e, op) ==
    IF e.k = "Binary" /\ e.op = op
    THEN Operands(e.left_expr, op) \o Operands(e.right_expr, op)
    ELSE <<e>>

\* C10: Simplify replaces e IN (v1, .., vn), n >= 1, by a disjunction of exactly n
\* equalities e = vi, and e NOT IN (..) by a conjunction of exactly n inequalities
\* e != vi, each vi once and no In node remaining; an IN with an empty list is left
\* unchanged; the equalities are then themselves simplified.
C10_InExpansion ==
    (SimplifyApplied /\ SimplifyInput.k = "In")
    => LET e == SimplifyInput.expr
           args == SimplifyInput.args
           n == Len(args)
           op_1 == IF SimplifyInput.negated THEN "NotEq" ELSE "Eq"
           op_2 == IF SimplifyInput.negated THEN "And" ELSE "Or"
           terms == Operands(SimplifyOutput, op_2)
       IN IF n = 0 THEN SimplifyOutput = SimplifyInput
          ELSE /\ ~ContainsKind(SimplifyOutput, {"In"})
               /\ Len(terms) = n
               /\ \A i \in 1..n :
                     terms[n + 1 - i] = Simplify(Binary(op_1, e, args[i], "Boolean")).expr

\* the base-table columns an operator's expressions refer to
BaseColumns(op) ==
    IF op.k = "TableScan" THEN {}
    ELSE {column.name : column \in Operator_referenced_columns(op, TRUE)}

\* the columns the TableScans below a node still read
ScannedBelow(g, node_id) ==
    UNION {g.nodes[d].columns : d \in {x \in Descendants(g, node_id) : g.nodes[x].k = "TableScan"}}

PruningApplied == rule = "ColumnPruning" /\ result = "Ok"

\* C3: after ColumnPruning::apply at the plan root, every base-table column referenced
\* by a retained expression of a Filter, Join, Sort, Project or Aggregate node is still
\* among the columns retained by a TableScan in its subtree.
C3_PruningSoundness ==
    PruningApplied =>
        \A node_id \in NodeIds(graph) :
            graph.nodes[node_id].k \in {"Filter", "Join", "Sort", "Project", "Aggregate"}
            => BaseColumns(graph.nodes[node_id]) \subseteq ScannedBelow(graph, node_id)

\* a scan lost a column no operator above it refers to
C3_Witness ==
    /\ PruningApplied
    /\ \E node_id \in NodeIds(graph) :
          /\ graph.nodes[node_id].k = "TableScan"
          /\ graph.nodes[node_id].columns # pre.graph.nodes[node_id].columns
          /\ graph.nodes[node_id].columns # {}

\* C4: if ConstantCalculation::apply or SimplifyFilter::apply returns an error, every
\* operator and expression of the graph, every is_optimized flag and graph.version are
\* equal to their values before the call.
C4_FailureLeavesGraphUnchanged ==
    (rule \in {"ConstantCalculation", "SimplifyFilter"} /\ result = "Err")
    => (graph = pre.graph /\ version = pre.version)

\* what next_tuple hands out up to and including its first error
RECURSIVE UpToFirstErr(_)
UpToFirstErr(items) ==
    IF items = <<>> THEN <<>>
    ELSE IF items[1].res # "Ok" THEN <<items[1]>>
    ELSE <<items[1]>> \o UpToFirstErr(Tail(items))

\* the yields of a whole SeqScan stream
ExpectedYields == IF scan.open_fails THEN <<Err("Storage")>> ELSE UpToFirstErr(scan.items)

IsPrefix(p, q) == Len(p) <= Len(q) /\ \A i \in DOMAIN p : p[i] = q[i]

Scanning == scan.pc # "None"

\* C5: a SeqScan stream yields the tuples of the storage iterator in iterator order, one
\* per resume, and returns when the iterator is exhausted; if opening the iterator or a
\* next_tuple call fails it yields exactly one Err and then returns, so no tuple is
\* yielded after an Err.  try_collect returns the tuples in yield order, or the first
\* Err without resuming the stream again.
C5_ScanStream ==
    Scanning =>
        LET ys == scan.yielded
            n == Len(ys)
        IN /\ IsPrefix(ys, ExpectedYields)
           /\ \A i \in 1..(n - 1) : ys[i].res = "Ok"
           /\ scan.pc \in {"Unresumed", "Suspended", "Thrown", "Returned"}
           /\ scan.resumes = n + (IF scan.pc = "Returned" THEN 1 ELSE 0)
           /\ scan.pc = "Suspended" => (n > 0 /\ ys[n].res = "Ok")
           /\ (scan.pc = "Thrown") = (n > 0 /\ ys[n].res # "Ok")
           /\ scan.pc = "Returned" => (ys = ExpectedYields /\ \A i \in 1..n : ys[i].res = "Ok")
           /\ scan.pc = "Thrown" =>
                 /\ SeqScan_resume(scan).last = Complete
                 /\ SeqScan_resume(scan).yielded = ys
           /\ scan.collector = "done" =>
                 \/ /\ scan.ret = Ok(scan.output)
                    /\ scan.pc = "Returned"
                    /\ scan.output = [i \in 1..n |-> ys[i].v]
                 \/ /\ scan.ret = ys[n]
                    /\ scan.ret.res = "Err"
                    /\ scan.pc = "Thrown"
                    /\ scan.output = [i \in 1..(n - 1) |-> ys[i].v]

\* try_collect returned the error of a next_tuple call that followed a tuple
C5_Witness ==
    /\ Scanning
    /\ scan.collector = "done"
    /\ scan.ret.res = "Err"
    /\ Len(scan.output) >= 1
    /\ Len(scan.items) > Len(scan.yielded)

\* C11: Simplify replaces e BETWEEN lo AND hi by (e >= lo) AND (e <= hi) and
\* e NOT BETWEEN lo AND hi by (e < lo) OR (e > hi); no Between and no Empty node
\* remains, and both comparisons are simplified as comparisons of their own, so over
\* a column-left term each bounds the bare column.
C11_BetweenExpansion ==
    (SimplifyApplied /\ SimplifyInput.k = "Between")
    => LET b == SimplifyInput
           op == IF b.negated THEN "Or" ELSE "And"
           left_op == IF b.negated THEN "Lt" ELSE "GtEq"
           right_op == IF b.negated THEN "Gt" ELSE "LtEq"
           lower == Binary(left_op, b.expr, b.left_expr, "Boolean")
           upper == Binary(right_op, b.expr, b.right_expr, "Boolean")
       IN /\ ~ContainsKind(SimplifyOutput, {"Between"})
          /\ ~ContainsEmpty(SimplifyOutput)
          /\ SimplifyOutput =
                Binary(op, Simplify(lower).expr, Simplify(upper).expr, "Boolean")
          /\ IsColumnLeftNest(b.expr) =>
                SimplifyOutput =
                   Binary(op,
                          [lower EXCEPT !.left_expr = NestColumn(b.expr),
                                        !.right_expr = PushedDown(b.expr, b.left_expr)],
                          [upper EXCEPT !.left_expr = NestColumn(b.expr),
                                        !.right_expr = PushedDown(b.expr, b.right_expr)],
                          "Boolean")

\* (c1 + 1) BETWEEN 1 AND b has become (c1 >= 1 - 1) AND (c1 <= b - 1)
C11_Witness ==
    /\ SimplifyApplied
    /\ SimplifyInput = Between(FALSE, Arith("Plus", c1, K(1)), K(1), K(MaxConst))
    /\ SimplifyOutput =
          Cmp("And", Cmp("GtEq", c1, Arith("Minus", K(1), K(1))),
                     Cmp("LtEq", c1, Arith("Minus", K(MaxConst), K(1))))

\* C12: Simplify replaces k IS NULL, k a constant, by Constant(TRUE) when k is NULL
\* and Constant(FALSE) otherwise, and k IS NOT NULL by the opposite value; IS NULL and
\* IS NOT NULL over a column are left unchanged.
C12_IsNullFolding ==
    (SimplifyApplied /\ SimplifyInput.k = "IsNull")
    => IF SimplifyInput.expr.k = "Constant"
       THEN SimplifyOutput =
               Constant(VBool((SimplifyInput.expr.v = VNull) # SimplifyInput.negated))
       ELSE SimplifyOutput = SimplifyInput

\* a Filter that SimplifyFilter has marked
Optimized(g, node_id) == g.nodes[node_id].k = "Filter" /\ g.nodes[node_id].is_optimized

\* C13: the first successful application of SimplifyFilter to a Filter sets its
\* is_optimized flag; no later rule application clears the flag; every later
\* application of SimplifyFilter to that node returns Ok and leaves the graph (so the
\* predicate and the flag) and graph.version unchanged, and so does an application to
\* a node that is not a Filter.
C13_RepeatedPasses ==
    [][/\ \A node_id \in NodeIds(graph) :
            Optimized(graph, node_id) =>
                (node_id \in NodeIds(graph') /\ Optimized(graph', node_id))
       /\ (rule' = "SimplifyFilter" /\ applied' = applied + 1) =>
            IF graph.nodes[at'].k = "Filter" /\ ~graph.nodes[at'].is_optimized
            THEN result' = "Ok" =>
                    (Optimized(graph', at') /\ version' = version + 1)
            ELSE result' = "Ok" /\ graph' = graph /\ version' = version]_vars

\* SimplifyFilter was applied a second time to the Filter it had rewritten
C13_Witness ==
    /\ rule = "SimplifyFilter"
    /\ applied = 2
    /\ Optimized(pre.graph, at)
    /\ pre.version = 1
    /\ pre.graph.nodes[at].predicate = Cmp("Gt", c1, Arith("Minus", K(1), K(1)))
    /\ graph = pre.graph
    /\ version = 1

\* a successful run of ConstantCalculation at a node
FoldingApplied == rule = "ConstantCalculation" /\ result = "Ok"

\* C14: Simplify applied to a predicate it has simplified succeeds and yields the
\* same tree, and ConstantCalculator applied to an expression it has folded succeeds
\* and yields the same tree.
C14_ExpressionIdempotence ==
    /\ SimplifyApplied =>
          /\ Simplify(SimplifyOutput).st = "Ok"
          /\ Simplify(SimplifyOutput).expr = SimplifyOutput
          /\ ConstantCalculator_visit(SimplifyInput).st = "Ok"
          /\ ConstantCalculator_visit(SimplifyInput).expr = SimplifyInput
    /\ FoldingApplied =>
          \A node_id \in {at} \cup Descendants(graph, at) :
              \A i \in DOMAIN Exprs(graph.nodes[node_id]) :
                  /\ ConstantCalculator_visit(Exprs(graph.nodes[node_id])[i]).st = "Ok"
                  /\ ConstantCalculator_visit(Exprs(graph.nodes[node_id])[i]).expr
                        = Exprs(graph.nodes[node_id])[i]

\* a node of one of the kinds, in the tree of e, all of whose operands are Constant
RECURSIVE Foldable(_, _)
Foldable(e, kinds) ==
    \/ /\ e.k \in kinds
       /\ \A i \in DOMAIN Children(e) : Children(e)[i].k = "Constant"
    \/ \E i \in DOMAIN Children(e) : Foldable(Children(e)[i], kinds)

\* C15: after ConstantCalculation succeeds at a node, no expression of a Filter, Join,
\* Project, Aggregate or Sort of that node or a descendant holds a Unary, Binary,
\* TypeCast or IsNull node all of whose operands are Constant.
C15_FoldingComplete ==
    FoldingApplied =>
        \A node_id \in {at} \cup Descendants(graph, at) :
            \A i \in DOMAIN Exprs(graph.nodes[node_id]) :
                ~Foldable(Exprs(graph.nodes[node_id])[i],
                          {"Unary", "Binary", "TypeCast", "IsNull"})

\* the agg calls whose output column is in the reference set
Referenced(column_references, agg_calls) ==
    LET Keep(expr) == summary(output_column(expr)) \in column_references
    IN SelectSeq(agg_calls, Keep)

\* a Project at the root, not left alone for a COUNT(*), hands the Aggregate below it
\* its own references with all_referenced = false
AggregateReached ==
    /\ PruningApplied
    /\ pre.graph.nodes[Root].k = "Project"
    /\ \A i \in DOMAIN pre.graph.nodes[Root].exprs : ~HasCountStar(pre.graph.nodes[Root].exprs[i])
    /\ pre.graph.nodes[2].k = "Aggregate"

\* C16: an Aggregate reached with all_referenced = false keeps exactly the agg calls
\* whose output column is in the incoming reference set, and when none is left and it
\* has no group-by it holds exactly one non-distinct COUNT over the constant string
\* "*"; an Aggregate reached with all_referenced = true keeps its agg calls.
C16_AggregatePruning ==
    /\ AggregateReached =>
          LET op == pre.graph.nodes[2]
              kept == Referenced(
                          trans_references(Operator_referenced_columns(graph.nodes[Root], FALSE)),
                          op.agg_calls)
          IN /\ graph.nodes[2].groupby_exprs = op.groupby_exprs
             /\ graph.nodes[2].agg_calls =
                   IF kept = <<>> /\ op.groupby_exprs = <<>> THEN <<CountStar>> ELSE kept
    /\ (PruningApplied /\ pre.graph.nodes[Root].k = "Aggregate") =>
          graph.nodes[Root] = pre.graph.nodes[Root]

\* the node a node hangs under
Parent(g, node_id) ==
    CHOOSE p \in NodeIds(g) : \E i \in DOMAIN children_at(g, p) : children_at(g, p)[i] = node_id

\* the child of an Insert, Update, Delete or Analyze: the rule goes on below it
PassedOver(g, node_id) == node_id # Root /\ g.nodes[Parent(g, node_id)].k \in DmlKinds

\* a Project or an Aggregate the rule processes
Encloses(g, node_id) ==
    g.nodes[node_id].k \in {"Project", "Aggregate"} /\ ~PassedOver(g, node_id)

\* the nearest such Project or Aggregate above a node, 0 when there is none
RECURSIVE Enclosing(_, _)
Enclosing(g, node_id) ==
    IF node_id = Root THEN 0
    ELSE IF Encloses(g, Parent(g, node_id)) THEN Parent(g, node_id)
    ELSE Enclosing(g, Parent(g, node_id))

\* the references of the Sort, Limit, Join and Filter nodes between a node and the
\* nearest Project or Aggregate above it
RECURSIVE Passed(_, _)
Passed(g, node_id) ==
    IF node_id = Root \/ Encloses(g, Parent(g, node_id)) THEN {}
    ELSE (IF PassedOver(g, Parent(g, node_id)) THEN {}
          ELSE trans_references(Operator_referenced_columns(g.nodes[Parent(g, node_id)], FALSE)))
         \cup Passed(g, Parent(g, node_id))

\* a Project that holds a COUNT(*) is left alone, with all that is below it
RECURSIVE Unreached(_, _)
Unreached(g, node_id) ==
    /\ node_id # Root
    /\ \/ /\ g.nodes[Parent(g, node_id)].k = "Project"
          /\ \E i \in DOMAIN g.nodes[Parent(g, node_id)].exprs :
                HasCountStar(g.nodes[Parent(g, node_id)].exprs[i])
       \/ Unreached(g, Parent(g, node_id))

BatchApplied == rule = "ColumnPruningBatch"

\* select count(*) from t1
CountStarPlan(is_distinct) ==
    Chain(<<Project(<<CountStar>>), Aggregate(<<>>, <<CountStar>>, is_distinct), ScanT1>>)

DmlPruned == PruningApplied /\ pre.graph.nodes[Root].k \in DmlKinds

\* C19: at an Insert, Update, Delete or Analyze node column pruning leaves the plan
\* as processing the node's single child itself, with all_referenced = true and the
\* references of the operator, leaves it.
C19_DmlPruning ==
    DmlPruned =>
        graph = ColumnPruning_apply(
                    trans_references(Operator_referenced_columns(pre.graph.nodes[Root], FALSE)),
                    TRUE, children_at(pre.graph, Root)[1], pre.graph).g

(***************************************************************************)
(* Exact integer arithmetic on 32-bit operands without leaving 32 bits: a  *)
(* number is M * 2^31 + L with M its distance from 0 in units of 2^31 and  *)
(* L between -2^30 and 2^30.                                               *)
(***************************************************************************)
Half == (I32Max \div 2) + 1

Hi(n) == IF n < -Half THEN -1 ELSE IF n >= Half THEN 1 ELSE 0
Lo(n) == CASE Hi(n) = 1 -> (n - I32Max) - 1
           [] Hi(n) = -1 -> n - I32Min
           [] OTHER -> n

\* M * 2^31 + L lies in the range of the type
Fits(M, L) == (M = 0) \/ (M = 1 /\ L <= -1) \/ (M = -1 /\ L >= 0)

Wide(M, L) == CASE M = 1 -> (L + I32Max) + 1
                [] M = -1 -> L + I32Min
                [] OTHER -> L

\* |x| as a number that is never positive
NegAbs(x) == IF x > 0 THEN -x ELSE x

Divides(b, x) == IF b = I32Min THEN x \in {0, I32Min} ELSE x % Abs(b) = 0

\* r is the remainder of the truncated division of a by b, b # 0
IsRemainder(a, b, r) ==
    /\ r = 0 \/ Sign(r) = Sign(a)
    /\ NegAbs(r) > NegAbs(b)
    /\ Divides(b, a - r)

\* the evaluator returned the exact result of `op` on l and r
Exact(op, l, r, out) ==
    /\ out.res = "Ok"
    /\ out.v.t = "Int32"
    /\ CASE op = "Plus" ->
              /\ Fits(Hi(l) + Hi(r), Lo(l) + Lo(r))
              /\ out.v.n = Wide(Hi(l) + Hi(r), Lo(l) + Lo(r))
         [] op = "Minus" ->
              /\ Fits(Hi(l) - Hi(r), Lo(l) - Lo(r))
              /\ out.v.n = Wide(Hi(l) - Hi(r), Lo(l) - Lo(r))
         [] op = "Multiply" ->
              /\ Hi(l) = 0 \/ Hi(r) = 0
              /\ Fits(Hi(l) * Lo(r) + Hi(r) * Lo(l), Lo(l) * Lo(r))
              /\ out.v.n = Wide(Hi(l) * Lo(r) + Hi(r) * Lo(l), Lo(l) * Lo(r))
         [] OTHER -> r # 0 /\ IsRemainder(l, r, out.v.n)

\* C20: an Int32 arithmetic evaluator (binary plus, minus, multiply, modulo; unary
\* minus) called on non-null operands either returns the exact mathematical result,
\* which lies in the range of the type, or fails with OverFlow; it never returns a
\* wrapped value and never aborts.
C20_CheckedArithmetic ==
    (/\ evaluation.kind # "None"
     /\ evaluation.out.res # "None"
     /\ evaluation.ty = "Integer"
     /\ evaluation.op \in IntegerArithmetic
     /\ evaluation.l.t = "Int32"
     /\ evaluation.kind = "Binary" => evaluation.r.t = "Int32")
    => \/ evaluation.out = Err("OverFlow")
       \/ /\ evaluation.kind = "Binary"
          /\ Exact(evaluation.op, evaluation.l.n, evaluation.r.n, evaluation.out)
       \/ /\ evaluation.kind = "Unary"
          /\ evaluation.l.n # I32Min \/ evaluation.op = "Plus"
          /\ evaluation.out =
                Ok(I32(IF evaluation.op = "Minus" THEN -evaluation.l.n ELSE evaluation.l.n))

\* an evaluator was called with NULL for an operand
NullOperand ==
    /\ evaluation.kind # "None"
    /\ evaluation.out.res # "None"
    /\ evaluation.l = VNull \/ (evaluation.kind = "Binary" /\ evaluation.r = VNull)

\* C21: every numeric binary evaluator the factory builds (plus, minus, multiply,
\* divide, modulo, =, !=, <, <=, >, >=) returns NULL without error when its left
\* operand, its right operand or both are NULL, and unary minus of NULL is NULL.
C21_EvaluatorNullability == NullOperand => evaluation.out = Ok(VNull)

C21_Witness ==
    /\ NullOperand
    /\ evaluation.kind = "Binary"
    /\ evaluation.op = "Modulo"
    /\ evaluation.l = VNull
    /\ evaluation.r = I32(0)
    /\ evaluation.out = Ok(VNull)


(***************************************************************************)
(* BindEvaluator.                                                          *)
(***************************************************************************)
BindReturned == call.to = "BindEvaluator" /\ call.out # Pending

\* the node `o` stands where the pass found `b`: below a cast to ty exactly when the
\* type of `b` is another, and every binary node in it has operands of one type, the
\* greater of the types its operands had, and the evaluator of that type
RECURSIVE Promoted(_, _), PromotedSide(_, _, _)
PromotedSide(b, o, ty) ==
    IF return_type(b) # ty
    THEN o.k = "TypeCast" /\ o.ty = ty /\ Promoted(b, o.expr)
    ELSE Promoted(b, o)

Promoted(b, o) ==
    /\ o.k = b.k
    /\ CASE b.k = "Binary" ->
              /\ o.op = b.op
              /\ max_logical_type(return_type(b.left_expr), return_type(b.right_expr)).res = "Ok"
              /\ LET ty == max_logical_type(return_type(b.left_expr),
                                            return_type(b.right_expr)).v
                 IN /\ return_type(o.left_expr) = ty
                    /\ return_type(o.right_expr) = ty
                    /\ PromotedSide(b.left_expr, o.left_expr, ty)
                    /\ PromotedSide(b.right_expr, o.right_expr, ty)
                    /\ Ok(o.evaluator) = binary_create(ty, b.op)
         [] b.k = "Unary" -> o.op = b.op /\ Promoted(b.expr, o.expr)
         [] Children(b) = <<>> -> o = b
         [] OTHER ->
              /\ Len(Children(o)) = Len(Children(b))
              /\ \A i \in DOMAIN Children(b) : Promoted(Children(b)[i], Children(o)[i])

UnsignedOperand ==
    /\ BindReturned
    /\ call.expr.k = "Unary"
    /\ call.expr.op \in {"Minus", "Plus"}
    /\ is_unsigned_numeric(return_type(call.expr.expr))

\* C23: BindEvaluator succeeds on a unary minus (or plus) whose operand has an
\* unsigned integer type: the operand is wrapped in a cast to the signed type of the
\* same width and the node gets an evaluator whose type is the return type of the
\* operand as it stands afterwards.
C23_UnsignedUnary ==
    UnsignedOperand =>
        /\ call.out.st = "Ok"
        /\ call.out.e.expr =
              TypeCast(call.expr.expr, Signed(return_type(call.expr.expr)))
        /\ call.out.e.evaluator.some
        /\ call.out.e.evaluator.ty = return_type(call.out.e.expr)


(***************************************************************************)
(* bind_alter_table.                                                       *)
(***************************************************************************)
AlterReturned == call.to = "bind_alter_table" /\ call.out # Pending

\* the table named exists and the storage answered
TableFound ==
    /\ lower_case_name(call.name).res = "Ok"
    /\ call.lookup.res = "Ok"
    /\ lower_case_name(call.name).v \in call.tables

\* the plan of an ALTER TABLE: the operator over a single TableScan of the table
AlterPlanOf(plan, kind) ==
    /\ plan.operator.k = kind
    /\ plan.operator.table_name = lower_case_name(call.name).v
    /\ Len(plan.childrens) = 1
    /\ plan.childrens[1].operator.k = "TableScan"
    /\ plan.childrens[1].operator.table = lower_case_name(call.name).v
    /\ plan.childrens[1].childrens = <<>>

\* C24: whatever the table name and the catalog, bind_alter_table rejects an
\* operation other than ADD COLUMN and DROP COLUMN with UnsupportedStmt and returns
\* no plan; on an existing table ADD COLUMN and DROP COLUMN return an AddColumn or a
\* DropColumn plan with a single TableScan child, and ADD COLUMN of a column with an
\* illegal name fails with InvalidColumn.
C24_AlterTable ==
    AlterReturned =>
        /\ (call.operation.k \notin {"AddColumn", "DropColumn"} /\ call.lookup.res = "Ok")
              => call.out = Err("UnsupportedStmt")
        /\ (TableFound /\ call.operation.k = "DropColumn")
              => call.out.res = "Ok" /\ AlterPlanOf(call.out.v, "DropColumn")
        /\ (TableFound /\ call.operation.k = "AddColumn" /\ call.operation.binds)
              => IF is_valid_identifier(call.operation.column)
                 THEN call.out.res = "Ok" /\ AlterPlanOf(call.out.v, "AddColumn")
                 ELSE call.out = Err("InvalidColumn")


(***************************************************************************)
(* build_read and build_write.                                             *)
(***************************************************************************)
BuildReturned == call.to \in {"build_read", "build_write"} /\ call.out # Pending

\* the physical option of the plan is an index scan that carries a range
IndexRange(plan) ==
    \E meta \in {"pk_c1", "idx_c2"}, range \in {"Eq", "Scope"} :
        plan.physical_option = SomeOption(IndexInfo(meta, SomeRange(range)))

\* the executor that reads a plan whose root is no DML or DDL operator
ReadExecutor(plan) ==
    IF plan.operator.k # "TableScan" THEN build_read(plan)
    ELSE IF IndexRange(plan)
    THEN Ok(Executor("IndexScan", <<plan.operator, plan.physical_option.v.meta,
                                    plan.physical_option.v.range.v>>, FALSE))
    ELSE Ok(Executor("SeqScan", <<plan.operator>>, FALSE))

\* C25: for a TableScan build_read makes an IndexScan exactly when the physical
\* option of the plan is IndexScan with a range, and a SeqScan in every other case
\* (no option, another option, IndexScan without a range); build_write builds the
\* executors of the DML and DDL operators itself and hands every other plan, its
\* operator, children and physical option unchanged, to build_read.
C25_ScanDispatch ==
    BuildReturned =>
        IF call.to = "build_write" /\ call.plan.operator.k \in WriteWithInput \cup WriteAlone
        THEN /\ call.out.res = "Ok"
             /\ call.out.v.kind = call.plan.operator.k
             /\ call.out.v.mut
        ELSE IF call.to = "build_write" /\ call.plan.operator.k = "CopyToFile"
        THEN call.out.res = "Ok" /\ call.out.v.kind = "CopyToFile"
        ELSE IF call.plan.operator.k \in WriteWithInput \cup WriteAlone \cup {"CopyToFile"}
        THEN TRUE
        ELSE call.out = ReadExecutor(call.plan)

C25_Witness ==
    /\ BuildReturned
    /\ call.to = "build_write"
    /\ call.plan.operator.k = "TableScan"
    /\ call.plan.physical_option = SomeOption(IndexInfo("idx_c2", SomeRange("Scope")))
    /\ call.out = Ok(Executor("IndexScan", <<call.plan.operator, "idx_c2", "Scope">>, FALSE))


(***************************************************************************)
(* The version counter of the graph.                                       *)
(***************************************************************************)
\* C26: over any sequence of applications of ColumnPruning, ConstantCalculation and
\* SimplifyFilter the version of the graph never decreases, and an application that
\* returns (with Ok or with an error) having changed an operator or an expression
\* of the graph leaves the version strictly greater than it found it.
C26_VersionCounter ==
    [][result' # "Panic" =>
          /\ version' >= version
          /\ graph' # graph => version' > version]_vars


(***************************************************************************)
(* Where the arithmetic pushdown applies.                                  *)
(***************************************************************************)
\* c op k or k op c, op among + - * /
IsColumnArith(e) ==
    /\ e.k = "Binary"
    /\ is_arithmetic(e.op)
    /\ {e.left_expr.k, e.right_expr.k} = {"ColumnRef", "Constant"}

\* every arithmetic node of the expression is an operand of a modulo, an AND or an
\* OR, or stands under an alias; comparisons have columns and constants for operands
RECURSIVE Sheltered(_)
Sheltered(e) ==
    CASE e.k \in {"Constant", "ColumnRef"} -> TRUE
      [] e.k = "Alias" -> IsColumnArith(e.expr) \/ Sheltered(e.expr)
      [] e.k = "Binary" /\ e.op \in {"Modulo", "And", "Or"} ->
            /\ IsColumnArith(e.left_expr) \/ Sheltered(e.left_expr)
            /\ IsColumnArith(e.right_expr) \/ Sheltered(e.right_expr)
      [] e.k = "Binary" /\ e.op \in CmpOps -> Sheltered(e.left_expr) /\ Sheltered(e.right_expr)
      [] OTHER -> FALSE

RECURSIVE HasColumnArith(_)
HasColumnArith(e) ==
    IsColumnArith(e) \/ \E i \in DOMAIN Children(e) : HasColumnArith(Children(e)[i])

\* C27: the pushdown of an arithmetic node (c op k) applies only where the node is a
\* direct operand of a comparison: a predicate whose arithmetic nodes are operands
\* of another binary operator (modulo, AND, OR) or stand under an alias comes out of
\* SimplifyFilter as it went in.
C27_PushdownOnlyUnderComparison ==
    (SimplifyApplied /\ Sheltered(SimplifyInput) /\ HasColumnArith(SimplifyInput))
        => SimplifyOutput = SimplifyInput


(***************************************************************************)
(* Comparisons with a column on both sides.                                *)
(***************************************************************************)
RECURSIVE HasColumn(_)
HasColumn(e) ==
    e.k = "ColumnRef" \/ \E i \in DOMAIN Children(e) : HasColumn(Children(e)[i])

\* SimplifyFilter was applied to a Filter not yet optimized whose predicate is a
\* comparison or a logical node with a column in both operands
TwoColumnPredicate ==
    /\ rule = "SimplifyFilter"
    /\ pre.graph.nodes[at].k = "Filter"
    /\ ~pre.graph.nodes[at].is_optimized
    /\ pre.graph.nodes[at].predicate.k = "Binary"
    /\ pre.graph.nodes[at].predicate.op \in CmpOps \cup {"And", "Or"}
    /\ HasColumn(pre.graph.nodes[at].predicate.left_expr)
    /\ HasColumn(pre.graph.nodes[at].predicate.right_expr)

ColumnOnTheRight ==
    /\ TwoColumnPredicate
    /\ pre.graph.nodes[at].predicate.op \in CmpOps
    /\ pre.graph.nodes[at].predicate.right_expr.k = "ColumnRef"
    /\ IsSingleColumnTerm(pre.graph.nodes[at].predicate.left_expr)

ReferenceReturned == call.to = "TryReference" /\ call.out # Pending

\* the positions, from 0, of the schema elements with the column summary of x
Matches(S, x) ==
    {i - 1 : i \in {j \in DOMAIN S :
                       summary(output_column(S[j])) = summary(output_column(x))}}

\* the expression with its References taken off
RECURSIVE Unreferenced(_)
Unreferenced(e) ==
    IF e.k = "Reference" THEN Unreferenced(e.expr)
    ELSE WithChildren(e, [i \in DOMAIN Children(e) |-> Unreferenced(Children(e)[i])])

\* in e, every Reference holds the least position of the schema with the summary of
\* the expression it wraps, every other node that is not itself wrapped has a summary
\* the schema has not, and no node is Empty; wrapped tells that e is under a Reference
RECURSIVE Resolved(_, _, _)
Resolved(e, S, wrapped) ==
    /\ e.k # "Empty"
    /\ e.k = "Reference" =>
          /\ e.pos >= 0 /\ e.pos < Len(S)
          /\ e.pos \in Matches(S, e.expr)
          /\ \A p \in Matches(S, e.expr) : e.pos <= p
    /\ (e.k # "Reference" /\ ~wrapped) => Matches(S, e) = {}
    /\ \A i \in DOMAIN Children(e) : Resolved(Children(e)[i], S, e.k = "Reference")

\* C29: after TryReference::visit on an expression against the output schema S, every
\* Reference { expr, pos } in it has pos < |S|, S[pos] has the column summary of the
\* wrapped expr and pos is the least such index; every sub-expression that matches no
\* element of S is left unwrapped, the operands of a wrapped expression are resolved
\* as well, and no Empty remains: the result is the input with References put on.
C29_ReferencesResolved ==
    ReferenceReturned =>
        /\ call.out.res = "Ok"
        /\ Resolved(call.out.v, call.output_exprs, FALSE)
        /\ Unreferenced(call.out.v) = call.expr

\* (c1 + 1) > c2 against the schema [c1, c1 + 1, c1 + 1]: the column in the sum is
\* wrapped at 0 and then the sum around it at 1, the first of its two positions; c2 and
\* the comparison match nothing and stay as they are
C29_Witness ==
    /\ ReferenceReturned
    /\ call.output_exprs = <<c1, Arith("Plus", c1, K(1)), Arith("Plus", c1, K(1))>>
    /\ call.expr = Cmp("Gt", Arith("Plus", c1, K(1)), c2)
    /\ call.out =
          Ok(Cmp("Gt", Reference(Arith("Plus", Reference(c1, 0), K(1)), 1), c2))


(***************************************************************************)
(* Termination of Simplify::visit.                                         *)
(***************************************************************************)
\* the outermost visit has returned, or `?` or a panic ended it
SimplifyReturned == call.to = "Simplify" /\ call.stack = <<>>

\* the run call by call ends as Simplify::visit taken as a whole does
SimplifyAgrees ==
    SimplifyReturned =>
        /\ call.st = Simplify(call.input).st
        /\ call.st = "Ok" =>
              /\ call.expr = Simplify(call.input).expr
              /\ call.replaces = Simplify(call.input).rep

\* C30: Simplify::visit terminates on every finite expression tree: the calls of
\* visit, fix_expr and fix_unary into one another (each fix_unary moves one unary
\* operator to the other operand and runs fix_expr again, and fix_expr is run for
\* both orders of the operands) come to a state with no replacement left to apply,
\* and the outermost visit returns.
C30_SimplifyTerminates == <>SimplifyReturned


\* ---c1 > --c2 has returned: the three unary operators of the left went to the right
\* one fix_unary at a time, and the five then on the right came back to the left
C30_Witness ==
    /\ SimplifyReturned
    /\ call.st = "Ok"
    /\ call.replaces = <<>>
    /\ call.input = Cmp("Gt", Neg(Neg(Neg(c1))), Neg(Neg(c2)))
    /\ call.expr = Cmp("Gt", Neg(Neg(Neg(Neg(Neg(c1))))), c2)

====
